---- MODULE Spec2Model ----
(***************************************************************************)
(* FFX NOVA resume matcher: a model of the scoring and matching engine     *)
(* (job_matcher, matching_engine) and of the skill-synonym normaliser.     *)
(*                                                                         *)
(* Strings whose characters the code inspects (skill names) are sequences  *)
(* of one-character strings, so that lower(), strip() and dictionary       *)
(* lookups are computed rather than assumed.  Floats are exact rationals   *)
(* or fixed-point integers; each section says which.                       *)
(***************************************************************************)
EXTENDS Integers, Sequences, FiniteSets, TLC

(***************************************************************************)
(* Bounds of the model.                                                    *)
(***************************************************************************)
\* longest string of the exhaustive part of the normaliser's input set
MaxNormLen == 3
\* longest resume skill list the skill scorer is first given
MaxResumeSkills == 2
\* most skills a job lists, required and preferred together
MaxJobSkills == 2

(***************************************************************************)
(* Python values.                                                          *)
(***************************************************************************)
\* Python's None
None == [none |-> TRUE]

\* None where a string is expected (strings are sequences of characters)
NoneStr == <<"None">>

\* the elements of a list, as a set
Range(s) == {s[i] : i \in 1..Len(s)}

\* every list over S of length at most n
BoundedSeq(S, n) == UNION {[1..k -> S] : k \in 0..n}

(***************************************************************************)
(* str.lower() and str.strip() on character sequences.                     *)
(***************************************************************************)
UpperToLower ==
  [A |-> "a", B |-> "b", C |-> "c", D |-> "d", E |-> "e", F |-> "f",
   G |-> "g", H |-> "h", I |-> "i", J |-> "j", K |-> "k", L |-> "l",
   M |-> "m", N |-> "n", O |-> "o", P |-> "p", Q |-> "q", R |-> "r",
   S |-> "s", T |-> "t", U |-> "u", V |-> "v", W |-> "w", X |-> "x",
   Y |-> "y", Z |-> "z"]

LowerChar(c) == IF c \in DOMAIN UpperToLower THEN UpperToLower[c] ELSE c

UpperChar(c) ==
  IF \E u \in DOMAIN UpperToLower : UpperToLower[u] = c
  THEN CHOOSE u \in DOMAIN UpperToLower : UpperToLower[u] = c
  ELSE c

\* str.lower()
str_lower(s) == [i \in 1..Len(s) |-> LowerChar(s[i])]

\* str.upper(), used to build inputs only
str_upper(s) == [i \in 1..Len(s) |-> UpperChar(s[i])]

\* the characters str.strip() removes
Whitespace == {" ", "\t", "\n"}

RECURSIVE str_lstrip(_)
str_lstrip(s) ==
  IF s # <<>> /\ Head(s) \in Whitespace THEN str_lstrip(Tail(s)) ELSE s

RECURSIVE str_rstrip(_)
str_rstrip(s) ==
  IF s # <<>> /\ s[Len(s)] \in Whitespace
  THEN str_rstrip(SubSeq(s, 1, Len(s) - 1))
  ELSE s

\* str.strip()
str_strip(s) == str_rstrip(str_lstrip(s))

(***************************************************************************)
(* job_matcher/utils/skill_synonyms.py                                     *)
(***************************************************************************)
\* SKILL_SYNONYMS in source order: << canonical key, set of synonyms >>
SKILL_SYNONYMS ==
  <<
    << <<"j","a","v","a","s","c","r","i","p","t">>,
       {<<"e","c","m","a","s","c","r","i","p","t">>,
        <<"e","s","2","0","1","5">>,
        <<"e","s","2","0","2","0">>,
        <<"e","s","6">>,
        <<"j","s">>,
        <<"v","a","n","i","l","l","a"," ","j","s">>} >>,
    << <<"t","y","p","e","s","c","r","i","p","t">>,
       {<<"t","s">>} >>,
    << <<"p","y","t","h","o","n">>,
       {<<"c","p","y","t","h","o","n">>,
        <<"p","y">>,
        <<"p","y","t","h","o","n","2">>,
        <<"p","y","t","h","o","n","3">>} >>,
    << <<"j","a","v","a">>,
       {<<"j","2","e","e">>,
        <<"j","a","v","a","1","1">>,
        <<"j","a","v","a","1","7">>,
        <<"j","a","v","a","8">>,
        <<"j","d","k">>,
        <<"j","e","e">>} >>,
    << <<"c","#">>,
       {<<".","n","e","t"," ","c","#">>,
        <<"c"," ","s","h","a","r","p">>,
        <<"c","s","h","a","r","p">>} >>,
    << <<"c","+","+">>,
       {<<"c"," ","p","l","u","s"," ","p","l","u","s">>,
        <<"c","p","l","u","s","p","l","u","s">>,
        <<"c","p","p">>} >>,
    << <<"c">>,
       {<<"a","n","s","i"," ","c">>,
        <<"c"," ","l","a","n","g","u","a","g","e">>} >>,
    << <<"g","o">>,
       {<<"g","o","l","a","n","g">>} >>,
    << <<"r","u","s","t">>,
       {<<"r","u","s","t","l","a","n","g">>} >>,
    << <<"r","u","b","y">>,
       {<<"r","o","r">>,
        <<"r","u","b","y"," ","o","n"," ","r","a","i","l","s">>} >>,
    << <<"p","h","p">>,
       {<<"p","h","p","7">>,
        <<"p","h","p","8">>} >>,
    << <<"s","w","i","f","t">>,
       {<<"s","w","i","f","t"," ","u","i">>,
        <<"s","w","i","f","t","u","i">>} >>,
    << <<"k","o","t","l","i","n">>,
       {<<"k","o","t","l","i","n","/","j","v","m">>} >>,
    << <<"s","c","a","l","a">>,
       {<<"s","c","a","l","a"," ","l","a","n","g">>} >>,
    << <<"r">>,
       {<<"r"," ","l","a","n","g","u","a","g","e">>,
        <<"r"," ","p","r","o","g","r","a","m","m","i","n","g">>,
        <<"r","s","t","a","t","s">>} >>,
    << <<"m","a","t","l","a","b">>,
       {<<"m","a","t","h","l","a","b">>} >>,
    << <<"p","e","r","l">>,
       {<<"p","e","r","l","5">>} >>,
    << <<"s","h","e","l","l">>,
       {<<"b","a","s","h">>,
        <<"b","a","s","h"," ","s","c","r","i","p","t","i","n","g">>,
        <<"s","h">>,
        <<"s","h","e","l","l"," ","s","c","r","i","p","t","i","n","g">>,
        <<"z","s","h">>} >>,
    << <<"p","o","w","e","r","s","h","e","l","l">>,
       {<<"p","o","s","h">>,
        <<"p","s">>,
        <<"w","i","n","d","o","w","s"," ","p","o","w","e","r","s","h","e","l","l">>} >>,
    << <<"s","q","l">>,
       {<<"s","q","l"," ","q","u","e","r","i","e","s">>,
        <<"s","t","r","u","c","t","u","r","e","d"," ","q","u","e","r","y"," ","l","a","n","g","u","a","g","e">>} >>,
    << <<"r","e","a","c","t">>,
       {<<"r","e","a","c","t"," ","j","s">>,
        <<"r","e","a","c","t",".","j","s">>,
        <<"r","e","a","c","t","j","s">>} >>,
    << <<"a","n","g","u","l","a","r">>,
       {<<"a","n","g","u","l","a","r"," ","2","+">>,
        <<"a","n","g","u","l","a","r",".","j","s">>,
        <<"a","n","g","u","l","a","r","j","s">>,
        <<"n","g">>} >>,
    << <<"v","u","e">>,
       {<<"v","u","e",".","j","s">>,
        <<"v","u","e","3">>,
        <<"v","u","e","j","s">>} >>,
    << <<"s","v","e","l","t","e">>,
       {<<"s","v","e","l","t","e",".","j","s">>,
        <<"s","v","e","l","t","e","j","s">>} >>,
    << <<"n","e","x","t",".","j","s">>,
       {<<"n","e","x","t">>,
        <<"n","e","x","t","j","s">>} >>,
    << <<"n","u","x","t">>,
       {<<"n","u","x","t",".","j","s">>,
        <<"n","u","x","t","j","s">>} >>,
    << <<"j","q","u","e","r","y">>,
       {<<"j","q","u","e","r","y",".","j","s">>} >>,
    << <<"b","o","o","t","s","t","r","a","p">>,
       {<<"b","o","o","t","s","t","r","a","p"," ","c","s","s">>,
        <<"t","w","i","t","t","e","r"," ","b","o","o","t","s","t","r","a","p">>} >>,
    << <<"t","a","i","l","w","i","n","d">>,
       {<<"t","a","i","l","w","i","n","d"," ","c","s","s">>,
        <<"t","a","i","l","w","i","n","d","c","s","s">>} >>,
    << <<"n","o","d","e",".","j","s">>,
       {<<"e","x","p","r","e","s","s",".","j","s">>,
        <<"e","x","p","r","e","s","s","j","s">>,
        <<"n","o","d","e">>,
        <<"n","o","d","e","j","s">>} >>,
    << <<"d","j","a","n","g","o">>,
       {<<"d","j","a","n","g","o"," ","p","y","t","h","o","n">>,
        <<"d","j","a","n","g","o"," ","r","e","s","t"," ","f","r","a","m","e","w","o","r","k">>,
        <<"d","r","f">>} >>,
    << <<"f","l","a","s","k">>,
       {<<"f","l","a","s","k"," ","p","y","t","h","o","n">>} >>,
    << <<"f","a","s","t","a","p","i">>,
       {<<"f","a","s","t"," ","a","p","i">>,
        <<"f","a","s","t","a","p","i"," ","p","y","t","h","o","n">>} >>,
    << <<"s","p","r","i","n","g">>,
       {<<"s","p","r","i","n","g"," ","b","o","o","t">>,
        <<"s","p","r","i","n","g"," ","f","r","a","m","e","w","o","r","k">>,
        <<"s","p","r","i","n","g","b","o","o","t">>} >>,
    << <<"r","a","i","l","s">>,
       {<<"r","o","r">>,
        <<"r","u","b","y"," ","o","n"," ","r","a","i","l","s">>} >>,
    << <<"l","a","r","a","v","e","l">>,
       {<<"l","a","r","a","v","e","l"," ","p","h","p">>} >>,
    << <<"a","s","p",".","n","e","t">>,
       {<<".","n","e","t"," ","c","o","r","e">>,
        <<"a","s","p"," ","n","e","t">>,
        <<"a","s","p","n","e","t">>,
        <<"d","o","t","n","e","t">>} >>,
    << <<"p","o","s","t","g","r","e","s","q","l">>,
       {<<"p","g">>,
        <<"p","o","s","t","g","r","e","s">>,
        <<"p","s","q","l">>} >>,
    << <<"m","y","s","q","l">>,
       {<<"m","a","r","i","a"," ","d","b">>,
        <<"m","a","r","i","a","d","b">>} >>,
    << <<"m","o","n","g","o","d","b">>,
       {<<"m","o","n","g","o">>,
        <<"m","o","n","g","o"," ","d","b">>} >>,
    << <<"r","e","d","i","s">>,
       {<<"r","e","d","i","s"," ","c","a","c","h","e">>} >>,
    << <<"e","l","a","s","t","i","c","s","e","a","r","c","h">>,
       {<<"e","l","a","s","t","i","c">>,
        <<"e","l","k">>,
        <<"e","s">>} >>,
    << <<"d","y","n","a","m","o","d","b">>,
       {<<"a","w","s"," ","d","y","n","a","m","o","d","b">>,
        <<"d","y","n","a","m","o"," ","d","b">>} >>,
    << <<"c","a","s","s","a","n","d","r","a">>,
       {<<"a","p","a","c","h","e"," ","c","a","s","s","a","n","d","r","a">>} >>,
    << <<"s","q","l","i","t","e">>,
       {<<"s","q","l","i","t","e","3">>} >>,
    << <<"o","r","a","c","l","e">>,
       {<<"o","r","a","c","l","e"," ","d","a","t","a","b","a","s","e">>,
        <<"o","r","a","c","l","e"," ","d","b">>,
        <<"p","l","/","s","q","l">>,
        <<"p","l","s","q","l">>} >>,
    << <<"s","q","l"," ","s","e","r","v","e","r">>,
       {<<"m","i","c","r","o","s","o","f","t"," ","s","q","l"," ","s","e","r","v","e","r">>,
        <<"m","s"," ","s","q","l">>,
        <<"m","s","s","q","l">>} >>,
    << <<"a","w","s">>,
       {<<"a","m","a","z","o","n"," ","a","w","s">>,
        <<"a","m","a","z","o","n"," ","w","e","b"," ","s","e","r","v","i","c","e","s">>} >>,
    << <<"a","z","u","r","e">>,
       {<<"a","z","u","r","e"," ","c","l","o","u","d">>,
        <<"m","i","c","r","o","s","o","f","t"," ","a","z","u","r","e">>} >>,
    << <<"g","c","p">>,
       {<<"g","o","o","g","l","e"," ","c","l","o","u","d">>,
        <<"g","o","o","g","l","e"," ","c","l","o","u","d"," ","p","l","a","t","f","o","r","m">>} >>,
    << <<"h","e","r","o","k","u">>,
       {<<"h","e","r","o","k","u"," ","c","l","o","u","d">>} >>,
    << <<"d","i","g","i","t","a","l","o","c","e","a","n">>,
       {<<"d","i","g","i","t","a","l"," ","o","c","e","a","n">>} >>,
    << <<"c","l","o","u","d","f","l","a","r","e">>,
       {<<"c","l","o","u","d","f","l","a","r","e"," ","w","o","r","k","e","r","s">>} >>,
    << <<"d","o","c","k","e","r">>,
       {<<"c","o","n","t","a","i","n","e","r","i","z","a","t","i","o","n">>,
        <<"d","o","c","k","e","r"," ","c","o","m","p","o","s","e">>,
        <<"d","o","c","k","e","r","-","c","o","m","p","o","s","e">>} >>,
    << <<"k","u","b","e","r","n","e","t","e","s">>,
       {<<"k","8">>,
        <<"k","8","s">>,
        <<"k","u","b","e">>,
        <<"k","u","b","e","c","t","l">>} >>,
    << <<"t","e","r","r","a","f","o","r","m">>,
       {<<"t","e","r","r","a","f","o","r","m"," ","i","a","c">>,
        <<"t","f">>} >>,
    << <<"a","n","s","i","b","l","e">>,
       {<<"a","n","s","i","b","l","e"," ","a","u","t","o","m","a","t","i","o","n">>} >>,
    << <<"j","e","n","k","i","n","s">>,
       {<<"j","e","n","k","i","n","s"," ","c","i">>,
        <<"j","e","n","k","i","n","s"," ","p","i","p","e","l","i","n","e">>} >>,
    << <<"g","i","t","l","a","b"," ","c","i">>,
       {<<"g","i","t","l","a","b"," ","c","i","/","c","d">>,
        <<"g","i","t","l","a","b","-","c","i">>} >>,
    << <<"g","i","t","h","u","b"," ","a","c","t","i","o","n","s">>,
       {<<"g","h"," ","a","c","t","i","o","n","s">>,
        <<"g","i","t","h","u","b"," ","w","o","r","k","f","l","o","w","s">>} >>,
    << <<"c","i","r","c","l","e","c","i">>,
       {<<"c","i","r","c","l","e"," ","c","i">>} >>,
    << <<"n","g","i","n","x">>,
       {<<"n","g","i","n","x"," ","s","e","r","v","e","r">>} >>,
    << <<"a","p","a","c","h","e">>,
       {<<"a","p","a","c","h","e"," ","h","t","t","p">>,
        <<"h","t","t","p","d">>} >>,
    << <<"l","i","n","u","x">>,
       {<<"c","e","n","t","o","s">>,
        <<"l","i","n","u","x"," ","a","d","m","i","n","i","s","t","r","a","t","i","o","n">>,
        <<"r","h","e","l">>,
        <<"u","b","u","n","t","u">>,
        <<"u","n","i","x">>} >>,
    << <<"m","a","c","h","i","n","e"," ","l","e","a","r","n","i","n","g">>,
       {<<"m","l">>,
        <<"s","t","a","t","i","s","t","i","c","a","l"," ","l","e","a","r","n","i","n","g">>} >>,
    << <<"d","e","e","p"," ","l","e","a","r","n","i","n","g">>,
       {<<"d","l">>,
        <<"n","e","u","r","a","l"," ","n","e","t","w","o","r","k","s">>,
        <<"n","n">>} >>,
    << <<"t","e","n","s","o","r","f","l","o","w">>,
       {<<"t","e","n","s","o","r","f","l","o","w"," ","2">>,
        <<"t","f">>} >>,
    << <<"p","y","t","o","r","c","h">>,
       {<<"t","o","r","c","h">>} >>,
    << <<"s","c","i","k","i","t","-","l","e","a","r","n">>,
       {<<"s","c","i","k","i","t"," ","l","e","a","r","n">>,
        <<"s","k","l","e","a","r","n">>} >>,
    << <<"p","a","n","d","a","s">>,
       {<<"p","a","n","d","a","s"," ","p","y","t","h","o","n">>} >>,
    << <<"n","u","m","p","y">>,
       {<<"n","p">>,
        <<"n","u","m","p","y"," ","p","y","t","h","o","n">>} >>,
    << <<"s","p","a","r","k">>,
       {<<"a","p","a","c","h","e"," ","s","p","a","r","k">>,
        <<"p","y","s","p","a","r","k">>} >>,
    << <<"h","a","d","o","o","p">>,
       {<<"a","p","a","c","h","e"," ","h","a","d","o","o","p">>,
        <<"h","d","f","s">>} >>,
    << <<"k","a","f","k","a">>,
       {<<"a","p","a","c","h","e"," ","k","a","f","k","a">>} >>,
    << <<"r","e","s","t">>,
       {<<"r","e","s","t"," ","a","p","i">>,
        <<"r","e","s","t","f","u","l">>,
        <<"r","e","s","t","f","u","l"," ","a","p","i">>} >>,
    << <<"g","r","a","p","h","q","l">>,
       {<<"g","q","l">>,
        <<"g","r","a","p","h"," ","q","l">>} >>,
    << <<"g","r","p","c">>,
       {<<"g"," ","r","p","c">>} >>,
    << <<"s","o","a","p">>,
       {<<"s","o","a","p"," ","a","p","i">>} >>,
    << <<"w","e","b","s","o","c","k","e","t">>,
       {<<"w","e","b","s","o","c","k","e","t","s">>,
        <<"w","s">>} >>,
    << <<"j","e","s","t">>,
       {<<"j","e","s","t","j","s">>} >>,
    << <<"p","y","t","e","s","t">>,
       {<<"p","y",".","t","e","s","t">>,
        <<"p","y","t","h","o","n"," ","t","e","s","t","i","n","g">>} >>,
    << <<"j","u","n","i","t">>,
       {<<"j","u","n","i","t","5">>} >>,
    << <<"s","e","l","e","n","i","u","m">>,
       {<<"s","e","l","e","n","i","u","m"," ","w","e","b","d","r","i","v","e","r">>} >>,
    << <<"c","y","p","r","e","s","s">>,
       {<<"c","y","p","r","e","s","s",".","i","o">>} >>,
    << <<"m","o","c","h","a">>,
       {<<"m","o","c","h","a","j","s">>} >>,
    << <<"g","i","t">>,
       {<<"b","i","t","b","u","c","k","e","t">>,
        <<"g","i","t","h","u","b">>,
        <<"g","i","t","l","a","b">>,
        <<"v","e","r","s","i","o","n"," ","c","o","n","t","r","o","l">>} >>,
    << <<"s","v","n">>,
       {<<"s","u","b","v","e","r","s","i","o","n">>} >>,
    << <<"a","g","i","l","e">>,
       {<<"a","g","i","l","e"," ","m","e","t","h","o","d","o","l","o","g","y">>,
        <<"k","a","n","b","a","n">>,
        <<"s","c","r","u","m">>} >>,
    << <<"j","i","r","a">>,
       {<<"a","t","l","a","s","s","i","a","n"," ","j","i","r","a">>} >>,
    << <<"c","o","n","f","l","u","e","n","c","e">>,
       {<<"a","t","l","a","s","s","i","a","n"," ","c","o","n","f","l","u","e","n","c","e">>} >>,
    << <<"c","y","b","e","r","s","e","c","u","r","i","t","y">>,
       {<<"c","y","b","e","r"," ","s","e","c","u","r","i","t","y">>,
        <<"i","n","f","o","r","m","a","t","i","o","n"," ","s","e","c","u","r","i","t","y">>,
        <<"i","n","f","o","s","e","c">>} >>,
    << <<"p","e","n","e","t","r","a","t","i","o","n"," ","t","e","s","t","i","n","g">>,
       {<<"e","t","h","i","c","a","l"," ","h","a","c","k","i","n","g">>,
        <<"p","e","n"," ","t","e","s","t","i","n","g">>,
        <<"p","e","n","t","e","s","t">>} >>,
    << <<"o","a","u","t","h">>,
       {<<"o","a","u","t","h"," ","2",".","0">>,
        <<"o","a","u","t","h","2">>} >>,
    << <<"j","w","t">>,
       {<<"j","s","o","n"," ","w","e","b"," ","t","o","k","e","n">>,
        <<"j","s","o","n"," ","w","e","b"," ","t","o","k","e","n","s">>} >>,
    << <<"m","i","c","r","o","s","e","r","v","i","c","e","s">>,
       {<<"m","i","c","r","o"," ","s","e","r","v","i","c","e","s">>,
        <<"m","i","c","r","o","s","e","r","v","i","c","e"," ","a","r","c","h","i","t","e","c","t","u","r","e">>} >>,
    << <<"c","i","/","c","d">>,
       {<<"c","i"," ","c","d">>,
        <<"c","i","c","d">>,
        <<"c","o","n","t","i","n","u","o","u","s"," ","d","e","p","l","o","y","m","e","n","t">>,
        <<"c","o","n","t","i","n","u","o","u","s"," ","i","n","t","e","g","r","a","t","i","o","n">>} >>,
    << <<"a","p","i">>,
       {<<"a","p","i"," ","d","e","v","e","l","o","p","m","e","n","t">>,
        <<"a","p","i","s">>} >>
  >>

\* dict.get(key, default)
dict_get(d, key, default) == IF key \in DOMAIN d THEN d[key] ELSE default

\* the keys the loop over table.items() writes: canonical.lower() and
\* synonym.lower() of every entry
ReverseLookupKeys(table) ==
  UNION {{str_lower(table[i][1])} \cup {str_lower(syn) : syn \in table[i][2]}
         : i \in 1..Len(table)}

\* the entries of table that write key k
WritersOf(table, k) ==
  {i \in 1..Len(table) :
     \/ k = str_lower(table[i][1])
     \/ k \in {str_lower(syn) : syn \in table[i][2]}}

\* the reverse index after the loop over table.items(): a key written by
\* several entries keeps the value of the last one
BuildReverseLookup(table) ==
  [k \in ReverseLookupKeys(table) |->
     LET writers == WritersOf(table, k)
         last == CHOOSE i \in writers : \A j \in writers : j <= i
     IN  table[last][1]]

_REVERSE_LOOKUP == BuildReverseLookup(SKILL_SYNONYMS)

\* normalize_skill looking the string up before lower-casing it
normalize_skill_lookup_raw(skill) ==
  IF skill = <<>>
  THEN <<>>
  ELSE dict_get(_REVERSE_LOOKUP, str_strip(skill), str_strip(str_lower(skill)))

normalize_skill(skill) ==
  IF skill = <<>>
  THEN <<>>
  ELSE dict_get(_REVERSE_LOOKUP, str_strip(str_lower(skill)),
                str_strip(str_lower(skill)))

\* the display_names table of get_canonical_skill
display_names ==
     <<"j","a","v","a","s","c","r","i","p","t">> :> <<"J","a","v","a","S","c","r","i","p","t">>
  @@ <<"t","y","p","e","s","c","r","i","p","t">> :> <<"T","y","p","e","S","c","r","i","p","t">>
  @@ <<"p","y","t","h","o","n">> :> <<"P","y","t","h","o","n">>
  @@ <<"j","a","v","a">> :> <<"J","a","v","a">>
  @@ <<"c","#">> :> <<"C","#">>
  @@ <<"c","+","+">> :> <<"C","+","+">>
  @@ <<"g","o">> :> <<"G","o">>
  @@ <<"r","u","s","t">> :> <<"R","u","s","t">>
  @@ <<"r","u","b","y">> :> <<"R","u","b","y">>
  @@ <<"p","h","p">> :> <<"P","H","P">>
  @@ <<"s","w","i","f","t">> :> <<"S","w","i","f","t">>
  @@ <<"k","o","t","l","i","n">> :> <<"K","o","t","l","i","n">>
  @@ <<"r","e","a","c","t">> :> <<"R","e","a","c","t">>
  @@ <<"a","n","g","u","l","a","r">> :> <<"A","n","g","u","l","a","r">>
  @@ <<"v","u","e">> :> <<"V","u","e",".","j","s">>
  @@ <<"n","o","d","e",".","j","s">> :> <<"N","o","d","e",".","j","s">>
  @@ <<"d","j","a","n","g","o">> :> <<"D","j","a","n","g","o">>
  @@ <<"f","l","a","s","k">> :> <<"F","l","a","s","k">>
  @@ <<"f","a","s","t","a","p","i">> :> <<"F","a","s","t","A","P","I">>
  @@ <<"s","p","r","i","n","g">> :> <<"S","p","r","i","n","g">>
  @@ <<"p","o","s","t","g","r","e","s","q","l">> :> <<"P","o","s","t","g","r","e","S","Q","L">>
  @@ <<"m","y","s","q","l">> :> <<"M","y","S","Q","L">>
  @@ <<"m","o","n","g","o","d","b">> :> <<"M","o","n","g","o","D","B">>
  @@ <<"r","e","d","i","s">> :> <<"R","e","d","i","s">>
  @@ <<"e","l","a","s","t","i","c","s","e","a","r","c","h">> :> <<"E","l","a","s","t","i","c","s","e","a","r","c","h">>
  @@ <<"a","w","s">> :> <<"A","W","S">>
  @@ <<"a","z","u","r","e">> :> <<"A","z","u","r","e">>
  @@ <<"g","c","p">> :> <<"G","C","P">>
  @@ <<"d","o","c","k","e","r">> :> <<"D","o","c","k","e","r">>
  @@ <<"k","u","b","e","r","n","e","t","e","s">> :> <<"K","u","b","e","r","n","e","t","e","s">>
  @@ <<"t","e","r","r","a","f","o","r","m">> :> <<"T","e","r","r","a","f","o","r","m">>
  @@ <<"a","n","s","i","b","l","e">> :> <<"A","n","s","i","b","l","e">>
  @@ <<"j","e","n","k","i","n","s">> :> <<"J","e","n","k","i","n","s">>
  @@ <<"l","i","n","u","x">> :> <<"L","i","n","u","x">>
  @@ <<"g","i","t">> :> <<"G","i","t">>
  @@ <<"m","a","c","h","i","n","e"," ","l","e","a","r","n","i","n","g">> :> <<"M","a","c","h","i","n","e"," ","L","e","a","r","n","i","n","g">>
  @@ <<"d","e","e","p"," ","l","e","a","r","n","i","n","g">> :> <<"D","e","e","p"," ","L","e","a","r","n","i","n","g">>
  @@ <<"t","e","n","s","o","r","f","l","o","w">> :> <<"T","e","n","s","o","r","F","l","o","w">>
  @@ <<"p","y","t","o","r","c","h">> :> <<"P","y","T","o","r","c","h">>
  @@ <<"s","c","i","k","i","t","-","l","e","a","r","n">> :> <<"s","c","i","k","i","t","-","l","e","a","r","n">>
  @@ <<"p","a","n","d","a","s">> :> <<"P","a","n","d","a","s">>
  @@ <<"n","u","m","p","y">> :> <<"N","u","m","P","y">>
  @@ <<"r","e","s","t">> :> <<"R","E","S","T"," ","A","P","I">>
  @@ <<"g","r","a","p","h","q","l">> :> <<"G","r","a","p","h","Q","L">>
  @@ <<"s","q","l">> :> <<"S","Q","L">>
  @@ <<"a","g","i","l","e">> :> <<"A","g","i","l","e">>
  @@ <<"c","i","/","c","d">> :> <<"C","I","/","C","D">>
  @@ <<"m","i","c","r","o","s","e","r","v","i","c","e","s">> :> <<"M","i","c","r","o","s","e","r","v","i","c","e","s">>

get_canonical_skill(skill) ==
  dict_get(display_names, normalize_skill(skill), skill)

(***************************************************************************)
(* Python's ordering of strings (by code point), for sorted().             *)
(***************************************************************************)
\* the characters of the model in code-point order
CodePoints ==
  <<"\t", "\n", " ", "#", "+", "-", ".", "/",
    "0", "1", "2", "3", "4", "5", "6", "7", "8", "9",
    "A", "B", "C", "D", "E", "F", "G", "H", "I", "J", "K", "L", "M",
    "N", "O", "P", "Q", "R", "S", "T", "U", "V", "W", "X", "Y", "Z",
    "a", "b", "c", "d", "e", "f", "g", "h", "i", "j", "k", "l", "m",
    "n", "o", "p", "q", "r", "s", "t", "u", "v", "w", "x", "y", "z">>

ord(c) == CHOOSE i \in 1..Len(CodePoints) : CodePoints[i] = c

\* a < b for Python strings
RECURSIVE str_less(_, _)
str_less(a, b) ==
  IF b = <<>> THEN FALSE
  ELSE IF a = <<>> THEN TRUE
  ELSE IF Head(a) = Head(b) THEN str_less(Tail(a), Tail(b))
  ELSE ord(Head(a)) < ord(Head(b))

\* sorted(list_of_strings)
sorted(l) == SortSeq(l, str_less)

(***************************************************************************)
(* Exact rationals [num, den] with den > 0, standing for Python floats.    *)
(***************************************************************************)
Rat(n, d) == [num |-> n, den |-> d]
RatEq(a, b) == a.num * b.den = b.num * a.den
RatLeq(a, b) == a.num * b.den <= b.num * a.den
RatLess(a, b) == a.num * b.den < b.num * a.den
RatOne == Rat(1, 1)
RatZero == Rat(0, 1)
\* min(a, b) and max(a, b): Python returns the first argument on a tie
RatMin(a, b) == IF RatLess(b, a) THEN b ELSE a
RatMax(a, b) == IF RatLess(a, b) THEN b ELSE a

(***************************************************************************)
(* job_matcher/scoring/skill_scorer.py                                     *)
(***************************************************************************)
\* SkillScorer.__init__ defaults
required_weight == 2
preferred_weight == 1

\* {normalize_skill(s) for s in skills if s}
NormalizedSet(skills) ==
  {normalize_skill(skills[i]) : i \in {j \in 1..Len(skills) : skills[j] # <<>>}}

\* SkillScorer._get_display_skills: the display name of the first job skill
\* of each canonical key in normalized_skills, in job order
RECURSIVE DisplayLoop(_, _, _, _)
DisplayLoop(normalized_skills, original_skills, display, seen) ==
  IF original_skills = <<>>
  THEN display
  ELSE LET skill == Head(original_skills)
           norm == normalize_skill(skill)
       IN  IF norm \in normalized_skills /\ norm \notin seen
           THEN DisplayLoop(normalized_skills, Tail(original_skills),
                            Append(display, get_canonical_skill(skill)),
                            seen \cup {norm})
           ELSE DisplayLoop(normalized_skills, Tail(original_skills),
                            display, seen)

_get_display_skills(normalized_skills, original_skills) ==
  DisplayLoop(normalized_skills, original_skills, <<>>, {})

\* the keyword sets of SkillScorer._categorize_skill
category_programming ==
  {<<"c","#">>,
   <<"c","+","+">>,
   <<"g","o">>,
   <<"j","a","v","a">>,
   <<"j","a","v","a","s","c","r","i","p","t">>,
   <<"k","o","t","l","i","n">>,
   <<"p","h","p">>,
   <<"p","y","t","h","o","n">>,
   <<"r","u","b","y">>,
   <<"r","u","s","t">>,
   <<"s","c","a","l","a">>,
   <<"s","w","i","f","t">>,
   <<"t","y","p","e","s","c","r","i","p","t">>}

category_frontend ==
  {<<"a","n","g","u","l","a","r">>,
   <<"b","o","o","t","s","t","r","a","p">>,
   <<"c","s","s">>,
   <<"h","t","m","l">>,
   <<"j","q","u","e","r","y">>,
   <<"r","e","a","c","t">>,
   <<"s","v","e","l","t","e">>,
   <<"t","a","i","l","w","i","n","d">>,
   <<"v","u","e">>}

category_backend ==
  {<<"a","s","p",".","n","e","t">>,
   <<"d","j","a","n","g","o">>,
   <<"e","x","p","r","e","s","s">>,
   <<"f","a","s","t","a","p","i">>,
   <<"f","l","a","s","k">>,
   <<"l","a","r","a","v","e","l">>,
   <<"n","o","d","e",".","j","s">>,
   <<"r","a","i","l","s">>,
   <<"s","p","r","i","n","g">>}

category_database ==
  {<<"c","a","s","s","a","n","d","r","a">>,
   <<"d","y","n","a","m","o","d","b">>,
   <<"e","l","a","s","t","i","c","s","e","a","r","c","h">>,
   <<"m","o","n","g","o","d","b">>,
   <<"m","y","s","q","l">>,
   <<"o","r","a","c","l","e">>,
   <<"p","o","s","t","g","r","e","s","q","l">>,
   <<"r","e","d","i","s">>,
   <<"s","q","l">>}

category_cloud ==
  {<<"a","w","s">>,
   <<"a","z","u","r","e">>,
   <<"d","i","g","i","t","a","l","o","c","e","a","n">>,
   <<"g","c","p">>,
   <<"h","e","r","o","k","u">>}

category_devops ==
  {<<"a","n","s","i","b","l","e">>,
   <<"c","i","/","c","d">>,
   <<"d","o","c","k","e","r">>,
   <<"j","e","n","k","i","n","s">>,
   <<"k","u","b","e","r","n","e","t","e","s">>,
   <<"l","i","n","u","x">>,
   <<"n","g","i","n","x">>,
   <<"t","e","r","r","a","f","o","r","m">>}

category_data ==
  {<<"d","e","e","p"," ","l","e","a","r","n","i","n","g">>,
   <<"h","a","d","o","o","p">>,
   <<"m","a","c","h","i","n","e"," ","l","e","a","r","n","i","n","g">>,
   <<"n","u","m","p","y">>,
   <<"p","a","n","d","a","s">>,
   <<"p","y","t","o","r","c","h">>,
   <<"s","p","a","r","k">>,
   <<"t","e","n","s","o","r","f","l","o","w">>}

_categorize_skill(skill) ==
  LET normalized == normalize_skill(skill)
  IN  IF normalized \in category_programming THEN "programming"
      ELSE IF normalized \in category_frontend THEN "frontend"
      ELSE IF normalized \in category_backend THEN "backend"
      ELSE IF normalized \in category_database THEN "database"
      ELSE IF normalized \in category_cloud THEN "cloud"
      ELSE IF normalized \in category_devops THEN "devops"
      ELSE IF normalized \in category_data THEN "data_science"
      ELSE "technical"

\* SkillScorer._build_skill_gaps
_build_skill_gaps(missing_required, missing_preferred) ==
  [i \in 1..Len(missing_required) |->
     [skill |-> missing_required[i], importance |-> "required",
      category |-> _categorize_skill(missing_required[i])]]
  \o
  [i \in 1..Len(missing_preferred) |->
     [skill |-> missing_preferred[i], importance |-> "preferred",
      category |-> _categorize_skill(missing_preferred[i])]]

\* the keys of the job that the resume lacks, taken for those it has
MatchedKeys_symmetric_difference(resume_normalized, job_normalized) ==
  (resume_normalized \ job_normalized) \cup (job_normalized \ resume_normalized)

\* resume_normalized & job_normalized
MatchedKeys(resume_normalized, job_normalized) ==
  resume_normalized \cap job_normalized

\* the points of a skill count without the 2:1 weighting
SkillPoints_unweighted(n_required, n_preferred) == n_required + n_preferred

\* len(required) * self.required_weight + len(preferred) * self.preferred_weight
SkillPoints(n_required, n_preferred) ==
  n_required * required_weight + n_preferred * preferred_weight

\* SkillScorer.score
\* SkillScorer.score from the display lists on: the sorted lists and the gaps
SkillScorer_score_result(score, matched_skills, missing_required, missing_preferred) ==
  [score |-> score,
   matched_skills |-> sorted(matched_skills),
   missing_required |-> sorted(missing_required),
   missing_preferred |-> sorted(missing_preferred),
   gaps |-> _build_skill_gaps(missing_required, missing_preferred)]

\* SkillScorer.score from the three key sets on
SkillScorer_score_sets(resume_normalized, required_normalized, preferred_normalized, required_skills, preferred_skills) ==
  LET matched_required_norm == MatchedKeys(resume_normalized, required_normalized)
      matched_preferred_norm == MatchedKeys(resume_normalized, preferred_normalized)
      missing_required_norm == required_normalized \ matched_required_norm
      missing_preferred_norm == preferred_normalized \ matched_preferred_norm
      total_possible ==
        SkillPoints(Cardinality(required_normalized),
                    Cardinality(preferred_normalized))
      matched_points ==
        SkillPoints(Cardinality(matched_required_norm),
                    Cardinality(matched_preferred_norm))
      score == IF total_possible = 0
               THEN Rat(1, 2)
               ELSE Rat(matched_points, total_possible)
  IN  SkillScorer_score_result(
        RatMin(score, RatOne),
        _get_display_skills(matched_required_norm \cup matched_preferred_norm,
                            required_skills \o preferred_skills),
        _get_display_skills(missing_required_norm, required_skills),
        _get_display_skills(missing_preferred_norm, preferred_skills))

SkillScorer_score(resume_skills, required_skills, preferred_skills) ==
  SkillScorer_score_sets(NormalizedSet(resume_skills),
                         NormalizedSet(required_skills),
                         NormalizedSet(preferred_skills),
                         required_skills, preferred_skills)

(***************************************************************************)
(* matching_engine/matcher.py: HybridMatcher's own skill match             *)
(***************************************************************************)
\* {s.lower().strip() for s in skills}
LowerStripSet(skills) == {str_strip(str_lower(s)) : s \in Range(skills)}

\* HybridMatcher._get_original_case_skills
_get_original_case_skills(normalized_skills, original_skills) ==
  SelectSeq(original_skills,
            LAMBDA skill : str_strip(str_lower(skill)) \in normalized_skills)

\* HybridMatcher._calculate_skill_match
_calculate_skill_match(resume_skills, job_required, job_preferred) ==
  LET resume_skills_normalized == LowerStripSet(resume_skills)
      required_normalized == LowerStripSet(job_required)
      preferred_normalized == LowerStripSet(job_preferred)
      matched_required == resume_skills_normalized \cap required_normalized
      matched_preferred == resume_skills_normalized \cap preferred_normalized
      missing_required == required_normalized \ matched_required
      missing_preferred == preferred_normalized \ matched_preferred
      total_possible ==
        Cardinality(required_normalized) * 2 + Cardinality(preferred_normalized)
      matched_points ==
        Cardinality(matched_required) * 2 + Cardinality(matched_preferred)
      score == IF total_possible = 0
               THEN Rat(1, 2)
               ELSE Rat(matched_points, total_possible)
  IN  [score |-> RatMin(score, RatOne),
       matched |->
         sorted(_get_original_case_skills(matched_required \cup matched_preferred,
                                          job_required \o job_preferred)),
       missing_required |->
         sorted(_get_original_case_skills(missing_required, job_required)),
       missing_preferred |->
         sorted(_get_original_case_skills(missing_preferred, job_preferred))]

(***************************************************************************)
(* Regular expressions of the re module, as far as the patterns of the     *)
(* repository use them.  A pattern is a tree; re_ends gives every position *)
(* at which a match starting at position i (0-based, between characters)   *)
(* can end.                                                                *)
(***************************************************************************)
Digits == {"0", "1", "2", "3", "4", "5", "6", "7", "8", "9"}

\* \w for the characters of the model: letters, digits and underscore
WordChars ==
  DOMAIN UpperToLower \cup {UpperToLower[c] : c \in DOMAIN UpperToLower}
    \cup Digits \cup {"_"}

re_lit(s) == [t |-> "lit", s |-> s, r |-> <<>>]       \* the literal text s
re_set(S) == [t |-> "set", s |-> S, r |-> <<>>]       \* [..] one character of S
re_plus(S) == [t |-> "plus", s |-> S, r |-> <<>>]     \* [..]+
re_star(S) == [t |-> "star", s |-> S, r |-> <<>>]     \* [..]*
re_opt(r) == [t |-> "opt", s |-> {}, r |-> <<r>>]     \* (?:r)?
re_alt(rs) == [t |-> "alt", s |-> {}, r |-> rs]       \* r1|r2|...
re_cat(rs) == [t |-> "cat", s |-> {}, r |-> rs]       \* r1 r2 ...
re_b == [t |-> "b", s |-> {}, r |-> <<>>]             \* \b
re_not_ahead(r) == [t |-> "nla", s |-> {}, r |-> <<r>>]   \* (?!r)
re_not_behind(r) == [t |-> "nlb", s |-> {}, r |-> <<r>>]  \* (?<!r)

\* is the character after position i a word character
re_word_at(text, i) == i >= 0 /\ i < Len(text) /\ text[i + 1] \in WordChars

RECURSIVE re_ends(_, _, _)
RECURSIVE re_ends_cat(_, _, _)

re_ends(re, text, i) ==
  CASE re.t = "lit" ->
         IF i + Len(re.s) <= Len(text)
            /\ SubSeq(text, i + 1, i + Len(re.s)) = re.s
         THEN {i + Len(re.s)} ELSE {}
    [] re.t = "set" ->
         IF i < Len(text) /\ text[i + 1] \in re.s THEN {i + 1} ELSE {}
    [] re.t = "plus" ->
         {j \in (i + 1)..Len(text) : \A k \in (i + 1)..j : text[k] \in re.s}
    [] re.t = "star" ->
         {j \in i..Len(text) : \A k \in (i + 1)..j : text[k] \in re.s}
    [] re.t = "opt" -> {i} \cup re_ends(re.r[1], text, i)
    [] re.t = "alt" -> UNION {re_ends(re.r[n], text, i) : n \in DOMAIN re.r}
    [] re.t = "cat" -> re_ends_cat(re.r, text, {i})
    [] re.t = "b" ->
         IF re_word_at(text, i - 1) # re_word_at(text, i) THEN {i} ELSE {}
    [] re.t = "nla" -> IF re_ends(re.r[1], text, i) = {} THEN {i} ELSE {}
    [] re.t = "nlb" ->
         IF \E k \in 0..i : i \in re_ends(re.r[1], text, k) THEN {} ELSE {i}

\* the ends of rs[1] rs[2] ... started at any position of from
re_ends_cat(rs, text, from) ==
  IF rs = <<>> \/ from = {}
  THEN from
  ELSE re_ends_cat(Tail(rs), text,
                   UNION {re_ends(Head(rs), text, i) : i \in from})

\* re.search(pattern, text) finds a match
re_search(re, text) == \E i \in 0..Len(text) : re_ends(re, text, i) # {}

\* \s and the pieces the patterns share
re_s == Whitespace
re_sp == re_plus(re_s)
re_ss == re_star(re_s)

(***************************************************************************)
(* job_matcher/utils/clearance.py                                          *)
(***************************************************************************)
\* ClearanceLevel (IntEnum)
NONE == 0
PUBLIC_TRUST == 1
SECRET == 2
TOP_SECRET == 3
TS_SCI == 4

ClearanceLevel == {NONE, PUBLIC_TRUST, SECRET, TOP_SECRET, TS_SCI}

re_slash_dash == {"/", "-"}

\* CLEARANCE_PATTERNS, by level
CLEARANCE_PATTERNS ==
  [l \in ClearanceLevel \ {NONE} |->
    CASE l = TS_SCI -> <<
           \* \bts[/-]?sci\b
           re_cat(<<re_b, re_lit(<<"t", "s">>), re_opt(re_set(re_slash_dash)),
                    re_lit(<<"s", "c", "i">>), re_b>>),
           \* \btop\s+secret[/-]?sci\b
           re_cat(<<re_b, re_lit(<<"t", "o", "p">>), re_sp, re_lit(<<"s", "e", "c", "r", "e", "t">>),
                    re_opt(re_set(re_slash_dash)), re_lit(<<"s", "c", "i">>), re_b>>),
           \* \bts\s+w(?:ith)?\s+sci\b
           re_cat(<<re_b, re_lit(<<"t", "s">>), re_sp, re_lit(<<"w">>),
                    re_opt(re_lit(<<"i", "t", "h">>)), re_sp, re_lit(<<"s", "c", "i">>), re_b>>),
           \* \bsci\s+clearance\b
           re_cat(<<re_b, re_lit(<<"s", "c", "i">>), re_sp, re_lit(<<"c", "l", "e", "a", "r", "a", "n", "c", "e">>), re_b>>),
           \* \bsci\s+eligible\b
           re_cat(<<re_b, re_lit(<<"s", "c", "i">>), re_sp, re_lit(<<"e", "l", "i", "g", "i", "b", "l", "e">>), re_b>>) >>
      [] l = TOP_SECRET -> <<
           \* \btop\s+secret\b
           re_cat(<<re_b, re_lit(<<"t", "o", "p">>), re_sp, re_lit(<<"s", "e", "c", "r", "e", "t">>), re_b>>),
           \* \bts\s+clearance\b
           re_cat(<<re_b, re_lit(<<"t", "s">>), re_sp, re_lit(<<"c", "l", "e", "a", "r", "a", "n", "c", "e">>), re_b>>),
           \* \bts\s+eligible\b
           re_cat(<<re_b, re_lit(<<"t", "s">>), re_sp, re_lit(<<"e", "l", "i", "g", "i", "b", "l", "e">>), re_b>>),
           \* (?<![/-])\bts\b(?![/-])
           re_cat(<<re_not_behind(re_set(re_slash_dash)), re_b, re_lit(<<"t", "s">>),
                    re_b, re_not_ahead(re_set(re_slash_dash))>>) >>
      [] l = SECRET -> <<
           \* \bsecret\s+clearance\b
           re_cat(<<re_b, re_lit(<<"s", "e", "c", "r", "e", "t">>), re_sp, re_lit(<<"c", "l", "e", "a", "r", "a", "n", "c", "e">>), re_b>>),
           \* \bsecret\s+eligible\b
           re_cat(<<re_b, re_lit(<<"s", "e", "c", "r", "e", "t">>), re_sp, re_lit(<<"e", "l", "i", "g", "i", "b", "l", "e">>), re_b>>),
           \* \bactive\s+secret\b
           re_cat(<<re_b, re_lit(<<"a", "c", "t", "i", "v", "e">>), re_sp, re_lit(<<"s", "e", "c", "r", "e", "t">>), re_b>>),
           \* \bcurrent\s+secret\b
           re_cat(<<re_b, re_lit(<<"c", "u", "r", "r", "e", "n", "t">>), re_sp, re_lit(<<"s", "e", "c", "r", "e", "t">>), re_b>>),
           \* (?<!top\s)\bsecret\b(?!\s+service)
           re_cat(<<re_not_behind(re_cat(<<re_lit(<<"t", "o", "p">>), re_set(re_s)>>)),
                    re_b, re_lit(<<"s", "e", "c", "r", "e", "t">>), re_b,
                    re_not_ahead(re_cat(<<re_sp, re_lit(<<"s", "e", "r", "v", "i", "c", "e">>)>>))>>) >>
      [] l = PUBLIC_TRUST -> <<
           \* \bpublic\s+trust\b
           re_cat(<<re_b, re_lit(<<"p", "u", "b", "l", "i", "c">>), re_sp, re_lit(<<"t", "r", "u", "s", "t">>), re_b>>),
           \* \bmoderate\s+risk\b
           re_cat(<<re_b, re_lit(<<"m", "o", "d", "e", "r", "a", "t", "e">>), re_sp, re_lit(<<"r", "i", "s", "k">>), re_b>>),
           \* \bhigh\s+risk\s+public\s+trust\b
           re_cat(<<re_b, re_lit(<<"h", "i", "g", "h">>), re_sp, re_lit(<<"r", "i", "s", "k">>), re_sp,
                    re_lit(<<"p", "u", "b", "l", "i", "c">>), re_sp, re_lit(<<"t", "r", "u", "s", "t">>), re_b>>),
           \* \bmbi\b
           re_cat(<<re_b, re_lit(<<"m", "b", "i">>), re_b>>) >>]

\* some pattern of the level is found in text_lower
LevelFound(level, text_lower) ==
  \E n \in DOMAIN CLEARANCE_PATTERNS[level] :
     re_search(CLEARANCE_PATTERNS[level][n], text_lower)

\* the loop over the levels, highest first: the first level with a pattern
\* found in the text is returned
RECURSIVE DetectLoop(_, _)
DetectLoop(levels, text_lower) ==
  IF levels = <<>> THEN NONE
  ELSE IF LevelFound(Head(levels), text_lower) THEN Head(levels)
  ELSE DetectLoop(Tail(levels), text_lower)

\* detect_clearance_from_text if it tried the levels lowest first
detect_clearance_from_text_lowest_first(text) ==
  IF text = <<>> THEN NONE
  ELSE DetectLoop(<<PUBLIC_TRUST, SECRET, TOP_SECRET, TS_SCI>>, str_lower(text))

detect_clearance_from_text(text) ==
  IF text = <<>> THEN NONE
  ELSE DetectLoop(<<TS_SCI, TOP_SECRET, SECRET, PUBLIC_TRUST>>, str_lower(text))

\* meets_clearance_requirement with equality in place of the order
meets_clearance_requirement_equal(resume_clearance, job_clearance) ==
  resume_clearance = job_clearance

\* a clearance check that every resume passes
meets_clearance_requirement_always(resume_clearance, job_clearance) ==
  resume_clearance \in ClearanceLevel /\ job_clearance \in ClearanceLevel

meets_clearance_requirement(resume_clearance, job_clearance) ==
  resume_clearance >= job_clearance

\* the names table of clearance_to_string
clearance_names ==
  (NONE :> <<"N", "o", "n", "e", " ", "R", "e", "q", "u", "i", "r", "e", "d">>) @@ (PUBLIC_TRUST :> <<"P", "u", "b", "l", "i", "c", " ", "T", "r", "u", "s", "t">>)
  @@ (SECRET :> <<"S", "e", "c", "r", "e", "t">>) @@ (TOP_SECRET :> <<"T", "o", "p", " ", "S", "e", "c", "r", "e", "t">>)
  @@ (TS_SCI :> <<"T", "S", "/", "S", "C", "I">>)

clearance_to_string(level) == dict_get(clearance_names, level, <<"U", "n", "k", "n", "o", "w", "n">>)

(***************************************************************************)
(* Floating-point values are kept as exact fractions.                      *)
(***************************************************************************)
RECURSIVE gcd(_, _)
gcd(a, b) == IF b = 0 THEN a ELSE gcd(b, a % b)

\* the fraction n / d in lowest terms, d > 0
RatNorm(n, d) ==
  LET g == gcd(IF n < 0 THEN 0 - n ELSE n, d)
  IN  Rat(n \div g, d \div g)

RatAdd(a, b) == RatNorm(a.num * b.den + b.num * a.den, a.den * b.den)
RatMul(a, b) == RatNorm(a.num * b.num, a.den * b.den)
RatDiv(a, b) ==
  IF b.num < 0 THEN RatNorm(0 - a.num * b.den, 0 - a.den * b.num)
  ELSE RatNorm(a.num * b.den, a.den * b.num)

\* floor(n / d) for d > 0
FloorDiv(n, d) == IF n >= 0 THEN n \div d ELSE 0 - ((0 - n + d - 1) \div d)

\* round(x, ndigits) for scale = 10^ndigits: the nearest multiple of 1/scale,
\* the even one on a tie
round(x, scale) ==
  LET n == x.num * scale
      q == FloorDiv(n, x.den)
      twice == 2 * (n - q * x.den)
  IN  IF twice < x.den THEN Rat(q, scale)
      ELSE IF twice > x.den THEN Rat(q + 1, scale)
      ELSE IF q % 2 = 0 THEN Rat(q, scale)
      ELSE Rat(q + 1, scale)

(***************************************************************************)
(* job_matcher/scoring/experience_scorer.py                                *)
(***************************************************************************)
DigitValue ==
  ("0" :> 0) @@ ("1" :> 1) @@ ("2" :> 2) @@ ("3" :> 3) @@ ("4" :> 4)
  @@ ("5" :> 5) @@ ("6" :> 6) @@ ("7" :> 7) @@ ("8" :> 8) @@ ("9" :> 9)

\* int(s) / float(s) of a string of digits
RECURSIVE int_of(_)
int_of(s) ==
  IF s = <<>> THEN 0
  ELSE 10 * int_of(SubSeq(s, 1, Len(s) - 1)) + DigitValue[s[Len(s)]]

\* (?:years?|yrs?)
re_years ==
  re_alt(<<re_cat(<<re_lit(<<"y", "e", "a", "r">>), re_opt(re_lit(<<"s">>))>>),
           re_cat(<<re_lit(<<"y", "r">>), re_opt(re_lit(<<"s">>))>>)>>)

\* (?:experience|exp)
re_experience == re_alt(<<re_lit(<<"e", "x", "p", "e", "r", "i", "e", "n", "c", "e">>), re_lit(<<"e", "x", "p">>)>>)

\* the patterns of estimate_years_from_text, each as the part before the
\* group (\d+) and the part after it
years_patterns == <<
  \* (\d+)\+?\s*(?:years?|yrs?)(?:\s+of)?\s*(?:experience|exp)
  [before |-> re_cat(<<>>),
   after |-> re_cat(<<re_opt(re_lit(<<"+">>)), re_ss, re_years,
                      re_opt(re_cat(<<re_sp, re_lit(<<"o", "f">>)>>)), re_ss,
                      re_experience>>)],
  \* (?:over|more than|>\s*)\s*(\d+)\s*(?:years?|yrs?)
  [before |-> re_cat(<<re_alt(<<re_lit(<<"o", "v", "e", "r">>), re_lit(<<"m", "o", "r", "e", " ", "t", "h", "a", "n">>),
                                re_cat(<<re_lit(<<">">>), re_ss>>)>>), re_ss>>),
   after |-> re_cat(<<re_ss, re_years>>)],
  \* (\d+)\+\s*(?:years?|yrs?)
  [before |-> re_cat(<<>>),
   after |-> re_cat(<<re_lit(<<"+">>), re_ss, re_years>>)],
  \* (?:experience|exp)[:\s]+(\d+)\s*(?:years?|yrs?)
  [before |-> re_cat(<<re_experience, re_plus({":"} \cup re_s)>>),
   after |-> re_cat(<<re_ss, re_years>>)] >>

\* the matches of before (\d+) after that start at position i, each as the
\* pair of positions that delimit the group
re_group_at(before, after, text, i) ==
  UNION {{<<p, q>> : q \in {e \in re_ends(re_plus(Digits), text, p) :
                              re_ends(after, text, e) # {}}}
         : p \in re_ends(before, text, i)}

\* match.group(1) of re.search(before (\d+) after, text), NoneStr without a
\* match: the leftmost match, its group taking as many digits as it can
re_search_group(before, after, text) ==
  LET starts == {i \in 0..Len(text) : re_group_at(before, after, text, i) # {}}
  IN  IF starts = {} THEN NoneStr
      ELSE LET i == CHOOSE s \in starts : \A o \in starts : s <= o
               groups == re_group_at(before, after, text, i)
               pq == CHOOSE g \in groups : \A o \in groups : g[2] >= o[2]
           IN  SubSeq(text, pq[1] + 1, pq[2])

\* the loop over the patterns: the first pattern found gives the years
RECURSIVE YearsLoop(_, _)
YearsLoop(patterns, text_lower) ==
  IF patterns = <<>> THEN None
  ELSE LET group == re_search_group(Head(patterns).before,
                                    Head(patterns).after, text_lower)
       IN  IF group # NoneStr THEN Rat(int_of(group), 1)
           ELSE YearsLoop(Tail(patterns), text_lower)

\* ExperienceScorer.estimate_years_from_text
estimate_years_from_text(text) ==
  IF text = <<>> THEN None ELSE YearsLoop(years_patterns, str_lower(text))

\* ExperienceScorer.estimate_from_positions
estimate_from_positions(num_positions) ==
  IF num_positions <= 0 THEN RatZero ELSE Rat(num_positions * 5, 2)

\* a datetime, as far as the durations read it: its year and its month
datetime(year, month) == [year |-> year, month |-> month]

\* the number of days of a month, for the day check of datetime(...)
days_in_month(year, month) ==
  IF month = 2
  THEN IF year % 4 = 0 /\ (year % 100 # 0 \/ year % 400 = 0) THEN 29 ELSE 28
  ELSE IF month \in {4, 6, 9, 11} THEN 30 ELSE 31

\* the directives of strptime: %Y, %m, %d
re_dir_Y == re_cat(<<re_set(Digits), re_set(Digits), re_set(Digits), re_set(Digits)>>)
re_dir_m ==
  re_alt(<<re_cat(<<re_lit(<<"1">>), re_set({"0", "1", "2"})>>),
           re_cat(<<re_lit(<<"0">>), re_set(Digits \ {"0"})>>),
           re_set(Digits \ {"0"})>>)
re_dir_d ==
  re_alt(<<re_cat(<<re_lit(<<"3">>), re_set({"0", "1"})>>),
           re_cat(<<re_set({"1", "2"}), re_set(Digits)>>),
           re_cat(<<re_lit(<<"0">>), re_set(Digits \ {"0"})>>),
           re_set(Digits \ {"0"}),
           re_cat(<<re_lit(<<" ">>), re_set(Digits \ {"0"})>>)>>)

\* calendar.month_name and calendar.month_abbr, lower case
month_name ==
  <<<<"j", "a", "n", "u", "a", "r", "y">>, <<"f", "e", "b", "r", "u", "a", "r", "y">>, <<"m", "a", "r", "c", "h">>, <<"a", "p", "r", "i", "l">>, <<"m", "a", "y">>, <<"j", "u", "n", "e">>, <<"j", "u", "l", "y">>,
    <<"a", "u", "g", "u", "s", "t">>, <<"s", "e", "p", "t", "e", "m", "b", "e", "r">>, <<"o", "c", "t", "o", "b", "e", "r">>, <<"n", "o", "v", "e", "m", "b", "e", "r">>, <<"d", "e", "c", "e", "m", "b", "e", "r">>>>
month_abbr ==
  <<<<"j", "a", "n">>, <<"f", "e", "b">>, <<"m", "a", "r">>, <<"a", "p", "r">>, <<"m", "a", "y">>, <<"j", "u", "n">>, <<"j", "u", "l">>, <<"a", "u", "g">>, <<"s", "e", "p">>,
    <<"o", "c", "t">>, <<"n", "o", "v">>, <<"d", "e", "c">>>>

\* the whole string matches the pattern
re_fullmatch(re, s) == Len(s) \in re_ends(re, s, 0)

\* the position of the first character of s that is in seps (0 if none)
find_first(s, seps) ==
  IF \E k \in DOMAIN s : s[k] \in seps
  THEN CHOOSE k \in DOMAIN s : s[k] \in seps /\ \A j \in 1..(k - 1) : s[j] \notin seps
  ELSE 0

\* datetime(year, month, day), None for the ValueError of an invalid date
checked_datetime(year, month, day) ==
  IF year >= 1 /\ month \in 1..12 /\ day \in 1..days_in_month(year, month)
  THEN datetime(year, month) ELSE None

\* datetime.strptime(date_str, fmt) for the formats of _parse_date, None for
\* its ValueError
strptime(s, fmt) ==
  CASE fmt = "%Y-%m-%d" ->
         IF re_fullmatch(re_cat(<<re_dir_Y, re_lit(<<"-">>), re_dir_m,
                                  re_lit(<<"-">>), re_dir_d>>), s)
         THEN LET rest == SubSeq(s, 6, Len(s))
                  dash == find_first(rest, {"-"})
              IN  checked_datetime(int_of(SubSeq(s, 1, 4)),
                                   int_of(SubSeq(rest, 1, dash - 1)),
                                   int_of(str_strip(SubSeq(rest, dash + 1, Len(rest)))))
         ELSE None
    [] fmt = "%Y-%m" ->
         IF re_fullmatch(re_cat(<<re_dir_Y, re_lit(<<"-">>), re_dir_m>>), s)
         THEN checked_datetime(int_of(SubSeq(s, 1, 4)),
                               int_of(SubSeq(s, 6, Len(s))), 1)
         ELSE None
    [] fmt = "%Y" ->
         IF re_fullmatch(re_dir_Y, s)
         THEN checked_datetime(int_of(s), 1, 1)
         ELSE None
    [] fmt \in {"%m/%Y", "%m-%Y"} ->
         IF re_fullmatch(re_cat(<<re_dir_m,
                                  re_lit(IF fmt = "%m/%Y" THEN <<"/">> ELSE <<"-">>),
                                  re_dir_Y>>), s)
         THEN checked_datetime(int_of(SubSeq(s, Len(s) - 3, Len(s))),
                               int_of(SubSeq(s, 1, Len(s) - 5)), 1)
         ELSE None
    [] fmt \in {"%B %Y", "%b %Y"} ->
         LET names == IF fmt = "%B %Y" THEN month_name ELSE month_abbr
             low == str_lower(s)
             found == {m \in 1..12 :
                         re_fullmatch(re_cat(<<re_lit(names[m]), re_sp, re_dir_Y>>),
                                      low)}
         IN  IF found = {} THEN None
             ELSE checked_datetime(int_of(SubSeq(s, Len(s) - 3, Len(s))),
                                   CHOOSE m \in found : TRUE, 1)

\* the formats _parse_date tries, in its order
date_formats == <<"%Y-%m-%d", "%Y-%m", "%Y", "%m/%Y", "%m-%Y", "%B %Y", "%b %Y">>

\* \b(19|20)\d{2}\b
re_year ==
  re_cat(<<re_b, re_alt(<<re_lit(<<"1", "9">>), re_lit(<<"2", "0">>)>>), re_set(Digits),
           re_set(Digits), re_b>>)

\* the loop over the formats: the first format that parses gives the date
RECURSIVE FormatsLoop(_, _)
FormatsLoop(formats, date_str) ==
  IF formats = <<>> THEN None
  ELSE LET parsed == strptime(date_str, Head(formats))
       IN  IF parsed # None THEN parsed
           ELSE FormatsLoop(Tail(formats), date_str)

\* _parse_date once the string is stripped
ParseStripped(date_str, now) ==
  IF str_lower(date_str) \in {<<"p", "r", "e", "s", "e", "n", "t">>, <<"c", "u", "r", "r", "e", "n", "t">>, <<"n", "o", "w">>} THEN now
  ELSE LET parsed == FormatsLoop(date_formats, date_str)
       IN  IF parsed # None THEN parsed
           ELSE LET starts == {i \in 0..Len(date_str) :
                                 re_ends(re_year, date_str, i) # {}}
                IN  IF starts = {} THEN None
                    ELSE LET i == CHOOSE a \in starts : \A o \in starts : a <= o
                         IN  datetime(int_of(SubSeq(date_str, i + 1, i + 4)), 1)

\* ExperienceScorer._parse_date; now is what datetime.now() returns
_parse_date(date_str, now) ==
  IF date_str = NoneStr \/ date_str = <<>> THEN None
  ELSE ParseStripped(str_strip(date_str), now)

\* _calculate_entry_duration once the dates are parsed
EntryMonths(start, end, is_current, now) ==
  IF start = None THEN 30
  ELSE IF end = None /\ ~is_current THEN 24
  ELSE LET end_date == IF end = None THEN now ELSE end
           months == (end_date.year - start.year) * 12
                     + (end_date.month - start.month)
       IN  IF months > 0 THEN months ELSE 0

\* ExperienceScorer._calculate_entry_duration
_calculate_entry_duration(entry, now) ==
  EntryMonths(_parse_date(entry.start_date, now),
              _parse_date(entry.end_date, now), entry.is_current, now)

\* the loop of estimate_years_from_entries: total_months
RECURSIVE TotalMonths(_, _)
TotalMonths(entries, now) ==
  IF entries = <<>> THEN 0
  ELSE _calculate_entry_duration(Head(entries), now)
       + TotalMonths(Tail(entries), now)

\* ExperienceScorer.estimate_years_from_entries
estimate_years_from_entries(entries, now) ==
  IF entries = <<>> THEN RatZero ELSE Rat(TotalMonths(entries, now), 12)

\* the score once the years are known, without its two limits
YearsScore_unclamped(years, job_min_years) ==
  RatDiv(years, Rat(job_min_years, 1))

\* the score once the years are known
YearsScore(years, job_min_years) ==
  IF RatLeq(Rat(job_min_years, 1), years) THEN RatOne
  ELSE IF RatLeq(years, RatZero) THEN RatZero
  ELSE RatDiv(years, Rat(job_min_years, 1))

\* ExperienceScorer.score; only the truth value of experience_entries is
\* tested, so None is passed as the empty list
ExperienceScorer_score(resume_years, job_min_years, experience_entries, now) ==
  IF job_min_years <= 0 THEN RatOne
  ELSE IF resume_years # None THEN YearsScore(resume_years, job_min_years)
  ELSE IF experience_entries # <<>>
       THEN YearsScore(estimate_years_from_entries(experience_entries, now),
                       job_min_years)
  ELSE Rat(1, 2)

(***************************************************************************)
(* embeddings/service.py and job_matcher/scoring/semantic_scorer.py        *)
(***************************************************************************)
\* None where an embedding is expected (embeddings are sequences of numbers)
NoEmbedding == <<>>

\* the vectors the sentence-transformer model may give for a text; the zero
\* vector is what encode returns for a blank text
Embeddings == {<<1, 0>>, <<3, 4>>, <<-1, 0>>}
ZeroVector == <<0, 0>>

\* EmbeddingService.cache_size
cache_size == 1000

\* the texts that are keys of the cache, oldest first
CacheKeys(cache) == [n \in DOMAIN cache |-> cache[n].text]

\* EmbeddingService.encode(text) with use_cache: embedding is what the model
\* gives for the stripped text; the result and the cache afterwards
EmbeddingService_encode(cache, text, embedding) ==
  IF text = <<>> \/ str_strip(text) = <<>>
  THEN [result |-> ZeroVector, cache |-> cache, model_called |-> FALSE]
  ELSE LET key == str_strip(text)
           hits == {n \in DOMAIN cache : cache[n].text = key}
       IN  IF hits # {}
           THEN [result |-> cache[CHOOSE n \in hits : TRUE].embedding,
                 cache |-> cache, model_called |-> FALSE]
           ELSE [result |-> embedding,
                 cache |-> Append(IF Len(cache) >= cache_size
                                  THEN Tail(cache) ELSE cache,
                                  [text |-> key, embedding |-> embedding]),
                 model_called |-> TRUE]

dot(a, b) == a[1] * b[1] + a[2] * b[2]

\* np.linalg.norm of a vector of the model (all have whole norms)
norm(v) == CHOOSE n \in 0..(dot(v, v)) : n * n = dot(v, v)

\* EmbeddingService.cosine_similarity
cosine_similarity(embedding1, embedding2) ==
  IF norm(embedding1) = 0 \/ norm(embedding2) = 0
  THEN RatZero
  ELSE RatDiv(Rat(dot(embedding1, embedding2), 1),
              Rat(norm(embedding1) * norm(embedding2), 1))

\* the last line of SemanticScorer.score: max(0.0, min(1.0, similarity))
clamp_similarity(similarity) == RatMax(RatZero, RatMin(RatOne, similarity))

(***************************************************************************)
(* job_matcher/models/match_result.py                                      *)
(***************************************************************************)
\* UPSKILLING_RECOMMENDATIONS: the learning_path of each skill
UPSKILLING_RECOMMENDATIONS ==
  (<<"k", "u", "b", "e", "r", "n", "e", "t", "e", "s">> :> <<"C", "o", "n", "t", "a", "i", "n", "e", "r", " ", "o", "r", "c", "h", "e", "s", "t", "r", "a", "t", "i", "o", "n", " ", "f", "o", "r", " ", "c", "l", "o", "u", "d", "-", "n", "a", "t", "i", "v", "e", " ", "a", "p", "p", "l", "i", "c", "a", "t", "i", "o", "n", "s">>)
  @@ (<<"d", "o", "c", "k", "e", "r">> :> <<"C", "o", "n", "t", "a", "i", "n", "e", "r", "i", "z", "a", "t", "i", "o", "n", " ", "f", "u", "n", "d", "a", "m", "e", "n", "t", "a", "l", "s">>)
  @@ (<<"a", "w", "s">> :> <<"C", "l", "o", "u", "d", " ", "c", "o", "m", "p", "u", "t", "i", "n", "g", " ", "w", "i", "t", "h", " ", "A", "m", "a", "z", "o", "n", " ", "W", "e", "b", " ", "S", "e", "r", "v", "i", "c", "e", "s">>)
  @@ (<<"t", "e", "r", "r", "a", "f", "o", "r", "m">> :> <<"I", "n", "f", "r", "a", "s", "t", "r", "u", "c", "t", "u", "r", "e", " ", "a", "s", " ", "C", "o", "d", "e">>)
  @@ (<<"p", "y", "t", "h", "o", "n">> :> <<"G", "e", "n", "e", "r", "a", "l", "-", "p", "u", "r", "p", "o", "s", "e", " ", "p", "r", "o", "g", "r", "a", "m", "m", "i", "n", "g", " ", "l", "a", "n", "g", "u", "a", "g", "e">>)
  @@ (<<"r", "e", "a", "c", "t">> :> <<"M", "o", "d", "e", "r", "n", " ", "f", "r", "o", "n", "t", "e", "n", "d", " ", "d", "e", "v", "e", "l", "o", "p", "m", "e", "n", "t", " ", "w", "i", "t", "h", " ", "R", "e", "a", "c", "t">>)
  @@ (<<"t", "y", "p", "e", "s", "c", "r", "i", "p", "t">> :> <<"T", "y", "p", "e", "-", "s", "a", "f", "e", " ", "J", "a", "v", "a", "S", "c", "r", "i", "p", "t", " ", "d", "e", "v", "e", "l", "o", "p", "m", "e", "n", "t">>)
  @@ (<<"g", "r", "a", "p", "h", "q", "l">> :> <<"M", "o", "d", "e", "r", "n", " ", "A", "P", "I", " ", "q", "u", "e", "r", "y", " ", "l", "a", "n", "g", "u", "a", "g", "e">>)
  @@ (<<"m", "a", "c", "h", "i", "n", "e", " ", "l", "e", "a", "r", "n", "i", "n", "g">> :> <<"A", "I", " ", "a", "n", "d", " ", "s", "t", "a", "t", "i", "s", "t", "i", "c", "a", "l", " ", "m", "o", "d", "e", "l", "i", "n", "g">>)
  @@ (<<"p", "o", "s", "t", "g", "r", "e", "s", "q", "l">> :> <<"A", "d", "v", "a", "n", "c", "e", "d", " ", "r", "e", "l", "a", "t", "i", "o", "n", "a", "l", " ", "d", "a", "t", "a", "b", "a", "s", "e">>)

\* the field defaults of the MatchResult dataclass
MatchResult ==
  [score |-> RatZero, semantic_score |-> RatZero, skill_score |-> RatZero,
   experience_score |-> RatZero, matched_skills |-> <<>>,
   missing_required_skills |-> <<>>, missing_preferred_skills |-> <<>>,
   skill_gaps |-> <<>>, upskilling_recommendations |-> <<>>,
   clearance_met |-> TRUE, disqualified |-> FALSE,
   disqualification_reason |-> NoneStr, job_id |-> "", job_title |-> "",
   job_company |-> "", explanation |-> <<>>]

\* MatchResult.get_tier
get_tier(self) ==
  IF self.disqualified THEN "Disqualified"
  ELSE IF RatLeq(Rat(85, 1), self.score) THEN "Excellent"
  ELSE IF RatLeq(Rat(70, 1), self.score) THEN "Strong"
  ELSE IF RatLeq(Rat(55, 1), self.score) THEN "Good"
  ELSE IF RatLeq(Rat(40, 1), self.score) THEN "Fair"
  ELSE "Weak"

\* str(n) for n >= 0
RECURSIVE str_of_int(_)
str_of_int(n) ==
  LET digit == CHOOSE c \in Digits : DigitValue[c] = n % 10
  IN  IF n < 10 THEN <<digit>> ELSE Append(str_of_int(n \div 10), digit)

\* sep.join(parts)
RECURSIVE join(_, _)
join(sep, parts) ==
  IF parts = <<>> THEN <<>>
  ELSE IF Len(parts) = 1 THEN parts[1]
  ELSE parts[1] \o sep \o join(sep, Tail(parts))

\* list[:n] for n >= 0
first_n(list, n) == SubSeq(list, 1, IF n < Len(list) THEN n ELSE Len(list))

\* the first line of the explanation, by tier
tier_line(tier) ==
  CASE tier = "Excellent" ->
         <<"O", "u", "t", "s", "t", "a", "n", "d", "i", "n", "g", " ", "m", "a", "t", "c", "h", " ", "w", "i", "t", "h", " ", "s", "t", "r", "o", "n", "g", " ", "a", "l", "i", "g", "n", "m", "e", "n", "t", " ", "a", "c", "r", "o", "s", "s", " ", "a", "l", "l", " ", "c", "r", "i", "t", "e", "r", "i", "a", ".">>
    [] tier = "Strong" ->
         <<"S", "t", "r", "o", "n", "g", " ", "c", "a", "n", "d", "i", "d", "a", "t", "e", " ", "w", "i", "t", "h", " ", "g", "o", "o", "d", " ", "t", "e", "c", "h", "n", "i", "c", "a", "l", " ", "a", "n", "d", " ", "e", "x", "p", "e", "r", "i", "e", "n", "c", "e", " ", "f", "i", "t", ".">>
    [] tier = "Good" -> <<"S", "o", "l", "i", "d", " ", "m", "a", "t", "c", "h", " ", "w", "i", "t", "h", " ", "s", "o", "m", "e", " ", "a", "r", "e", "a", "s", " ", "f", "o", "r", " ", "g", "r", "o", "w", "t", "h", ".">>
    [] tier = "Fair" -> <<"M", "o", "d", "e", "r", "a", "t", "e", " ", "f", "i", "t", " ", "-", " ", "m", "a", "y", " ", "r", "e", "q", "u", "i", "r", "e", " ", "a", "d", "d", "i", "t", "i", "o", "n", "a", "l", " ", "t", "r", "a", "i", "n", "i", "n", "g", ".">>
    [] OTHER -> <<"L", "i", "m", "i", "t", "e", "d", " ", "m", "a", "t", "c", "h", " ", "-", " ", "s", "i", "g", "n", "i", "f", "i", "c", "a", "n", "t", " ", "g", "a", "p", "s", " ", "i", "d", "e", "n", "t", "i", "f", "i", "e", "d", ".">>

\* one "Matches n key skills: a, b..." line of the explanation
skills_line(head, kind, skills, shown) ==
  head \o str_of_int(Len(skills)) \o kind \o join(<<",", " ">>, first_n(skills, shown))
       \o (IF Len(skills) > shown THEN <<".", ".", ".">> ELSE <<>>) \o <<".">>

\* MatchResult.generate_explanation
generate_explanation(self) ==
  IF self.disqualified
  THEN <<"N", "o", "t", " ", "q", "u", "a", "l", "i", "f", "i", "e", "d", ":", " ">>
       \o (IF self.disqualification_reason = NoneStr THEN <<"N", "o", "n", "e">>
           ELSE self.disqualification_reason)
  ELSE join(<<" ">>,
         <<tier_line(get_tier(self))>>
         \o (IF self.matched_skills # <<>>
             THEN <<skills_line(<<"M", "a", "t", "c", "h", "e", "s", " ">>, <<" ", "k", "e", "y", " ", "s", "k", "i", "l", "l", "s", ":", " ">>,
                                self.matched_skills, 5)>>
             ELSE <<>>)
         \o (IF self.missing_required_skills # <<>>
             THEN <<skills_line(<<"M", "i", "s", "s", "i", "n", "g", " ">>, <<" ", "r", "e", "q", "u", "i", "r", "e", "d", " ", "s", "k", "i", "l", "l", "s", ":", " ">>,
                                self.missing_required_skills, 3)>>
             ELSE <<>>)
         \o (IF self.clearance_met
             THEN <<<<"M", "e", "e", "t", "s", " ", "s", "e", "c", "u", "r", "i", "t", "y", " ", "c", "l", "e", "a", "r", "a", "n", "c", "e", " ", "r", "e", "q", "u", "i", "r", "e", "m", "e", "n", "t", "s", ".">>>>
             ELSE <<>>))

(***************************************************************************)
(* job_matcher/matcher.py and the constructor of matching_engine/matcher.py *)
(***************************************************************************)
RatAbs(a) == IF a.num < 0 THEN Rat(0 - a.num, a.den) ELSE a

\* the weight check accepting only a total of exactly 1.0
weights_valid_exact(total) == RatEq(total, RatOne)

\* abs(total - 1.0) < 0.01
weights_valid(total) ==
  RatLess(RatAbs(RatAdd(total, Rat(-1, 1))), Rat(1, 100))

\* JobMatcher.__init__: the object built, or the exception raised
JobMatcher_init(semantic_weight, skill_weight, experience_weight) ==
  IF ~weights_valid(RatAdd(RatAdd(semantic_weight, skill_weight),
                           experience_weight))
  THEN [raised |-> "ValueError"]
  ELSE [raised |-> "", semantic_weight |-> semantic_weight,
        skill_weight |-> skill_weight,
        experience_weight |-> experience_weight]

\* config/settings.py: the defaults of HybridMatcher
settings == [semantic_weight |-> Rat(4, 10), skill_weight |-> Rat(6, 10)]

\* HybridMatcher.__init__: the object built, or the exception raised
HybridMatcher_init(semantic_weight, skill_weight) ==
  LET self == [raised |-> "",
               semantic_weight |-> IF semantic_weight # None
                                   THEN semantic_weight
                                   ELSE settings.semantic_weight,
               skill_weight |-> IF skill_weight # None
                                THEN skill_weight
                                ELSE settings.skill_weight]
  IN  IF ~weights_valid(RatAdd(self.semantic_weight, self.skill_weight))
      THEN [raised |-> "ValueError"]
      ELSE self

\* JobMatcher._estimate_experience_years
_estimate_experience_years(resume) ==
  LET years == IF resume.raw_text # <<>>
               THEN estimate_years_from_text(resume.raw_text)
               ELSE None
  IN  IF years # None THEN years
      ELSE IF resume.experience # <<>>
      THEN estimate_from_positions(Len(resume.experience))
      ELSE None

\* one recommendation of _get_upskilling_recommendations
Recommendation(skill) ==
  IF str_lower(skill) \in DOMAIN UPSKILLING_RECOMMENDATIONS
  THEN <<"L", "e", "a", "r", "n", " ">> \o get_canonical_skill(skill) \o <<":", " ">>
       \o UPSKILLING_RECOMMENDATIONS[str_lower(skill)]
  ELSE <<"D", "e", "v", "e", "l", "o", "p", " ">> \o get_canonical_skill(skill) \o <<" ", "s", "k", "i", "l", "l", "s">>

\* JobMatcher._get_upskilling_recommendations with max_recommendations = 5
_get_upskilling_recommendations(missing_skills) ==
  [n \in DOMAIN first_n(missing_skills, 5) |-> Recommendation(missing_skills[n])]

\* a disqualified result that carries no reason
DisqualifiedResult_without_reason(job, resume_clearance) ==
  [MatchResult EXCEPT
     !.score = RatZero,
     !.disqualified = TRUE,
     !.clearance_met = FALSE,
     !.job_id = job.job_id,
     !.job_title = job.title,
     !.job_company = job.company]

\* the result JobMatcher.match returns when the clearance filter fails
DisqualifiedResult(job, resume_clearance) ==
  [MatchResult EXCEPT
     !.score = RatZero,
     !.disqualified = TRUE,
     !.disqualification_reason =
        <<"C", "l", "e", "a", "r", "a", "n", "c", "e", " ", "r", "e", "q", "u", "i", "r", "e", "m", "e", "n", "t", " ", "n", "o", "t", " ", "m", "e", "t", ".", " ">> \o <<"J", "o", "b", " ", "r", "e", "q", "u", "i", "r", "e", "s", " ">>
        \o clearance_to_string(job.clearance_level) \o <<",", " ">>
        \o <<"r", "e", "s", "u", "m", "e", " ", "s", "h", "o", "w", "s", " ">> \o clearance_to_string(resume_clearance) \o <<".">>,
     !.clearance_met = FALSE,
     !.job_id = job.job_id,
     !.job_title = job.title,
     !.job_company = job.company]

\* ffx_score: the weighted sum on the 0-100 scale
ffx_score(self, semantic_score, skill_score, experience_score) ==
  RatMul(RatAdd(RatAdd(RatMul(self.semantic_weight, semantic_score),
                       RatMul(self.skill_weight, skill_score)),
                RatMul(self.experience_weight, experience_score)),
         Rat(100, 1))

\* the result JobMatcher.match builds from the three scores, before its
\* explanation is set
ScoredResult(self, job, semantic_score, skill_result, experience_score) ==
  [MatchResult EXCEPT
     !.score = round(ffx_score(self, semantic_score, skill_result.score,
                               experience_score), 10),
     !.semantic_score = round(semantic_score, 10000),
     !.skill_score = round(skill_result.score, 10000),
     !.experience_score = round(experience_score, 10000),
     !.matched_skills = skill_result.matched_skills,
     !.missing_required_skills = skill_result.missing_required,
     !.missing_preferred_skills = skill_result.missing_preferred,
     !.skill_gaps = skill_result.gaps,
     !.upskilling_recommendations =
        _get_upskilling_recommendations(skill_result.missing_required
                                        \o skill_result.missing_preferred),
     !.clearance_met = TRUE,
     !.job_id = job.job_id,
     !.job_title = job.title,
     !.job_company = job.company]

\* result.explanation = result.generate_explanation()
WithExplanation(result) ==
  [result EXCEPT !.explanation = generate_explanation(result)]

\* results.sort(key=lambda r: r.score, reverse=True): a stable sort, results
\* of equal score keep their order
RECURSIVE sort_by_score_desc(_)
sort_by_score_desc(results) ==
  IF results = <<>> THEN <<>>
  ELSE LET sorted_front == sort_by_score_desc(SubSeq(results, 1, Len(results) - 1))
           last == results[Len(results)]
           keep == {n \in DOMAIN sorted_front :
                      RatLeq(last.score, sorted_front[n].score)}
       IN  SubSeq(sorted_front, 1, Cardinality(keep)) \o <<last>>
           \o SubSeq(sorted_front, Cardinality(keep) + 1, Len(sorted_front))

\* list[:n], for any integer n
slice_to(list, n) ==
  IF n >= 0 THEN first_n(list, n)
  ELSE SubSeq(list, 1, IF Len(list) + n > 0 THEN Len(list) + n ELSE 0)

\* the filter loop of get_top_matches and its final slice
top_matches(all_results, top_k, min_score, require_clearance) ==
  slice_to(SelectSeq(all_results,
                     LAMBDA result :
                       /\ ~(require_clearance /\ result.disqualified)
                       /\ RatLeq(min_score, result.score)),
           top_k)

(***************************************************************************)
(* models/match_result.py and HybridMatcher.match, match_batch             *)
(***************************************************************************)
\* an Optional[int]: None is the empty list, n the list of n alone
NoneInt == <<>>
SomeInt(n) == <<n>>

\* one "Matched n skills: a, b..." part of the explanation
explanation_part(head, kind, skills, shown) ==
  head \o str_of_int(Len(skills)) \o kind \o join(<<",", " ">>, first_n(skills, shown))
       \o (IF Len(skills) > shown THEN <<".", ".", ".">> ELSE <<>>)

\* the semantic part of the explanation
semantic_part(semantic_similarity) ==
  IF RatLeq(Rat(8, 10), semantic_similarity)
  THEN <<<<"S", "t", "r", "o", "n", "g", " ", "s", "e", "m", "a", "n", "t", "i", "c", " ", "m", "a", "t", "c", "h", " ", "w", "i", "t", "h", " ", "j", "o", "b", " ", "d", "e", "s", "c", "r", "i", "p", "t", "i", "o", "n", ".">>>>
  ELSE IF RatLeq(Rat(6, 10), semantic_similarity)
  THEN <<<<"G", "o", "o", "d", " ", "s", "e", "m", "a", "n", "t", "i", "c", " ", "m", "a", "t", "c", "h", " ", "w", "i", "t", "h", " ", "j", "o", "b", " ", "d", "e", "s", "c", "r", "i", "p", "t", "i", "o", "n", ".">>>>
  ELSE IF RatLeq(Rat(4, 10), semantic_similarity)
  THEN <<<<"M", "o", "d", "e", "r", "a", "t", "e", " ", "s", "e", "m", "a", "n", "t", "i", "c", " ", "m", "a", "t", "c", "h", " ", "w", "i", "t", "h", " ", "j", "o", "b", " ", "d", "e", "s", "c", "r", "i", "p", "t", "i", "o", "n", ".">>>>
  ELSE <<>>

\* ExplainabilityData.generate_explanation
ExplainabilityData_generate_explanation(self) ==
  LET parts ==
        (IF self.matched_skills # <<>>
         THEN <<explanation_part(<<"M", "a", "t", "c", "h", "e", "d", " ">>, <<" ", "s", "k", "i", "l", "l", "s", ":", " ">>,
                                 self.matched_skills, 5)>>
         ELSE <<>>)
        \o (IF self.missing_required_skills # <<>>
            THEN <<explanation_part(<<"M", "i", "s", "s", "i", "n", "g", " ">>, <<" ", "r", "e", "q", "u", "i", "r", "e", "d", " ", "s", "k", "i", "l", "l", "s", ":", " ">>,
                                    self.missing_required_skills, 3)>>
            ELSE <<>>)
        \o semantic_part(self.semantic_similarity)
        \o (IF self.experience_match # NoneStr /\ self.experience_match # <<>>
            THEN <<self.experience_match>> ELSE <<>>)
        \o (IF self.education_match # NoneStr /\ self.education_match # <<>>
            THEN <<self.education_match>> ELSE <<>>)
  IN  IF parts # <<>> THEN join(<<" ">>, parts)
      ELSE <<"N", "o", " ", "d", "e", "t", "a", "i", "l", "e", "d", " ", "e", "x", "p", "l", "a", "n", "a", "t", "i", "o", "n", " ", "a", "v", "a", "i", "l", "a", "b", "l", "e", ".">>

\* HybridMatcher._match_experience
_match_experience(r, job) ==
  IF job.min_experience_years = NoneInt THEN NoneStr
  ELSE LET num_positions == Len(r.experience)
           estimated_years == num_positions * 2
       IN  IF estimated_years >= job.min_experience_years[1]
           THEN <<"E", "x", "p", "e", "r", "i", "e", "n", "c", "e", " ", "a", "p", "p", "e", "a", "r", "s", " ", "s", "u", "f", "f", "i", "c", "i", "e", "n", "t", " ", "(">> \o str_of_int(num_positions)
                \o <<" ", "p", "o", "s", "i", "t", "i", "o", "n", "s", ")">>
           ELSE <<"M", "a", "y", " ", "n", "e", "e", "d", " ", "m", "o", "r", "e", " ", "e", "x", "p", "e", "r", "i", "e", "n", "c", "e", " ", "(", "h", "a", "s", " ">> \o str_of_int(num_positions)
                \o <<" ", "p", "o", "s", "i", "t", "i", "o", "n", "s", ",", " ", "r", "e", "q", "u", "i", "r", "e", "s", " ">>
                \o str_of_int(job.min_experience_years[1]) \o <<"+", " ", "y", "e", "a", "r", "s", ")">>

\* HybridMatcher._match_education
_match_education(r, job) ==
  IF job.education_requirements = <<>> THEN NoneStr
  ELSE IF r.education # <<>>
  THEN LET degrees == SelectSeq([n \in DOMAIN r.education |-> r.education[n].degree],
                                LAMBDA d : d # NoneStr /\ d # <<>>)
       IN  IF degrees # <<>>
           THEN <<"H", "a", "s", " ", "e", "d", "u", "c", "a", "t", "i", "o", "n", ":", " ">> \o join(<<",", " ">>, first_n(degrees, 2))
           ELSE <<"H", "a", "s", " ">> \o str_of_int(Len(r.education)) \o <<" ", "e", "d", "u", "c", "a", "t", "i", "o", "n", " ", "e", "n", "t", "r", "i", "e", "s">>
  ELSE <<"N", "o", " ", "e", "d", "u", "c", "a", "t", "i", "o", "n", " ", "i", "n", "f", "o", "r", "m", "a", "t", "i", "o", "n", " ", "f", "o", "u", "n", "d">>

\* HybridMatcher.match once both embeddings are there: the MatchResult
HybridResult(self, r, job, skill_match, semantic_score) ==
  LET explainability ==
        [matched_skills |-> skill_match.matched,
         missing_required_skills |-> skill_match.missing_required,
         missing_preferred_skills |-> skill_match.missing_preferred,
         skill_match_percentage |-> round(RatMul(skill_match.score, Rat(100, 1)), 10),
         semantic_similarity |-> round(semantic_score, 10000),
         experience_match |-> _match_experience(r, job),
         education_match |-> _match_education(r, job)]
  IN  [resume_id |-> NoneStr,
       job_id |-> NoneStr,
       final_score |-> round(RatAdd(RatMul(self.semantic_weight, semantic_score),
                                    RatMul(self.skill_weight, skill_match.score)),
                             10000),
       semantic_score |-> round(semantic_score, 10000),
       skill_score |-> round(skill_match.score, 10000),
       semantic_weight |-> self.semantic_weight,
       skill_weight |-> self.skill_weight,
       explainability |->
         [explanation_text |-> ExplainabilityData_generate_explanation(explainability)]
         @@ explainability]

\* what the model gives for a text: emb has an embedding for each text that
\* is not blank
ModelOutput(emb, text) ==
  IF str_strip(text) \in DOMAIN emb THEN emb[str_strip(text)] ELSE ZeroVector

\* EmbeddingService.encode_batch: a zero vector for a blank text, what the
\* model gives for the others; the cache is not used
EmbeddingService_encode_batch(texts, emb) ==
  [n \in DOMAIN texts |->
     IF texts[n] = <<>> \/ str_strip(texts[n]) = <<>> THEN ZeroVector
     ELSE emb[str_strip(texts[n])]]

(***************************************************************************)
(* Skill names used as inputs.                                             *)
(***************************************************************************)
s_K8s == <<"K","8","s">>
s_kubernetes == <<"k","u","b","e","r","n","e","t","e","s">>
s_kube == <<"k","u","b","e">>
s_JS == <<"J","S">>
s_javascript == <<"j","a","v","a","s","c","r","i","p","t">>
s_JavaScript == <<"J","a","v","a","S","c","r","i","p","t">>
s_React == <<"R","e","a","c","t">>
s_ReactJS == <<"R","e","a","c","t","J","S">>
s_NodeJS == <<"N","o","d","e","J","S">>
s_Node_js == <<"N","o","d","e",".","j","s">>
s_Python == <<"P","y","t","h","o","n">>
s_python == <<"p","y","t","h","o","n">>
s_Django == <<"D","j","a","n","g","o">>
s_PostgreSQL == <<"P","o","s","t","g","r","e","S","Q","L">>
s_Terraform == <<"T","e","r","r","a","f","o","r","m">>
s_tf == <<"t","f">>
s_Qux == <<"Q","u","x">>
s_Qux_padded == <<" ","Q","u","x">>
s_empty == <<>>

(***************************************************************************)
(* Normaliser inputs.                                                      *)
(***************************************************************************)
NormAlphabet == {"k", "K", "8", "s", " "}

\* known surface forms in lower case, in upper case and padded with blanks,
\* the forms the tests name, unknown terms, and every short string
NormInputs ==
  UNION {{k, str_upper(k), <<" ">> \o k \o <<" ", "\t">>}
         : k \in DOMAIN _REVERSE_LOOKUP}
    \cup {s_K8s, s_kubernetes, s_kube, s_ReactJS, s_JS, s_Qux,
          <<" ", "q", "U", "x">>, <<>>, <<" ">>}
    \cup BoundedSeq(NormAlphabet, MaxNormLen)

(***************************************************************************)
(* Skill scorer inputs.                                                    *)
(***************************************************************************)
\* a synonym in upper case, its canonical key, an unknown name with a
\* leading blank, and the empty string
SkillUniverse == {s_JS, s_javascript, s_Qux_padded, s_empty}

\* the skill lists of the scorer's tests (test_scoring.py, test_job_matcher.py)
SkillScenarios ==
  {[resume |-> <<s_Python, s_Django, s_PostgreSQL>>,
    required |-> <<s_Python, s_Django>>, preferred |-> <<s_PostgreSQL>>],
   [resume |-> <<s_JS, s_ReactJS, s_NodeJS>>,
    required |-> <<s_JavaScript, s_React, s_Node_js>>, preferred |-> <<>>],
   [resume |-> <<s_Python, s_Python, s_python>>,
    required |-> <<s_Python>>, preferred |-> <<>>],
   [resume |-> <<s_Terraform>>,
    required |-> <<s_Terraform>>, preferred |-> <<s_K8s>>]}

\* every input with at most MaxResumeSkills resume skills and at most
\* MaxJobSkills job skills (required and preferred together)
SkillInputs ==
  {[resume |-> r, required |-> q, preferred |-> p] :
     r \in BoundedSeq(SkillUniverse, MaxResumeSkills),
     <<q, p>> \in {qp \in BoundedSeq(SkillUniverse, MaxJobSkills)
                          \X BoundedSeq(SkillUniverse, MaxJobSkills) :
                     Len(qp[1]) + Len(qp[2]) <= MaxJobSkills}}
    \cup SkillScenarios

\* the spellings a resume skill may be rewritten to
VariantForms == {s_javascript, s_JavaScript, s_Qux, s_React, s_tf}

\* the entries of SKILL_SYNONYMS that list name (as key or as synonym)
ListedIn(name) ==
  LET n == str_strip(str_lower(name))
  IN  {i \in 1..Len(SKILL_SYNONYMS) :
         n = SKILL_SYNONYMS[i][1] \/ n \in SKILL_SYNONYMS[i][2]}

\* b is a case variant of a, or SKILL_SYNONYMS lists both under one key
ListedVariant(a, b) ==
  \/ str_strip(str_lower(a)) = str_strip(str_lower(b))
  \/ ListedIn(a) \cap ListedIn(b) # {}

\* every spelling a resume skill can have
ResumeSpellings ==
  SkillUniverse \cup VariantForms
    \cup UNION {Range(sc.resume) : sc \in SkillScenarios}

\* the respellings <<from, to>> of a resume skill
VariantPairs ==
  {ab \in ResumeSpellings \X VariantForms :
     ab[1] # <<>> /\ ab[1] # ab[2] /\ ListedVariant(ab[1], ab[2])}

(***************************************************************************)
(* Inputs of the matchers.                                                 *)
(***************************************************************************)
\* the longest job list given to match_batch and get_top_matches
MaxJobs == 2

\* constructor arguments, in thousandths; for every total of these values
\* the float comparison abs(total - 1.0) < 0.01 and the exact one agree
WeightThousandths ==
  {-500, 0, 191, 200, 205, 209, 400, 500, 600, 605, 1000, 1500}
Weights == {Rat(n, 1000) : n \in WeightThousandths}

\* the weights given to the JobMatcher whose calls are followed
MatcherWeights ==
  {<<Rat(400, 1000), Rat(400, 1000), Rat(200, 1000)>>,
   <<Rat(400, 1000), Rat(400, 1000), Rat(205, 1000)>>,
   <<Rat(500, 1000), Rat(500, 1000), Rat(500, 1000)>>}

\* resumes: raw_text, skills and experience entries
Resumes ==
  {[raw_text |-> <<>>, skills |-> <<>>, experience |-> <<>>],
   [raw_text |-> <<"A", "c", "t", "i", "v", "e", " ", "S", "e", "c", "r", "e", "t", " ", "c", "l", "e", "a", "r", "a", "n", "c", "e", ".", " ", "3", " ", "y", "e", "a", "r", "s", " ", "o", "f", " ", "e", "x", "p", "e", "r", "i", "e", "n", "c", "e">>,
    skills |-> <<s_Python, s_JS>>, experience |-> <<>>],
   [raw_text |-> <<"T", "S", "/", "S", "C", "I">>, skills |-> <<s_python, s_K8s, s_tf>>,
    experience |-> <<[start_date |-> <<"2", "0", "1", "8", "-", "0", "1">>, end_date |-> <<"2", "0", "2", "0", "-", "0", "1">>,
                      is_current |-> FALSE]>>],
   [raw_text |-> <<"S", "e", "c", "r", "e", "t", " ", "S", "e", "r", "v", "i", "c", "e", " ", "a", "g", "e", "n", "t", ",", " ", "1", "0", "+", " ", "y", "r", "s">>, skills |-> <<s_Terraform>>,
    experience |-> <<[start_date |-> <<"J", "a", "n", " ", "2", "0", "1", "5">>, end_date |-> NoneStr,
                      is_current |-> TRUE],
                     [start_date |-> NoneStr, end_date |-> NoneStr,
                      is_current |-> FALSE]>>]}

\* jobs
Jobs ==
  {[job_id |-> "j1", title |-> "Developer", company |-> "Acme",
    description |-> <<"P", "y", "t", "h", "o", "n", " ", "d", "e", "v">>, clearance_level |-> NONE,
    required_skills |-> <<s_Python>>, preferred_skills |-> <<s_kubernetes>>,
    min_experience_years |-> 0],
   [job_id |-> "j2", title |-> "Analyst", company |-> "Fed Inc",
    description |-> <<" ", "C", "l", "e", "a", "r", "e", "d", " ", "J", "S", " ", "a", "n", "a", "l", "y", "s", "t", " ">>, clearance_level |-> SECRET,
    required_skills |-> <<s_JavaScript, s_Terraform>>,
    preferred_skills |-> <<>>, min_experience_years |-> 5],
   [job_id |-> "j3", title |-> "Operator", company |-> "Agency",
    description |-> <<>>, clearance_level |-> TS_SCI,
    required_skills |-> <<>>, preferred_skills |-> <<>>,
    min_experience_years |-> 3]}

\* what datetime.now() may return
Nows == {datetime(2024, 6), datetime(2026, 11)}

\* arguments of get_top_matches
TopKs == {-1, 0, 1, 2}
MinScores == {Rat(0, 1), Rat(50, 1)}

(***************************************************************************)
(* State.                                                                  *)
(***************************************************************************)
VARIABLES
  norm_pc,          \* "idle", "input", "once", "twice": runs of normalize_skill
  norm_x,           \* the string given to normalize_skill
  norm_once,        \* normalize_skill(norm_x)
  norm_twice,       \* normalize_skill(normalize_skill(norm_x))
  resume_skills,    \* SkillScorer.score argument
  required_skills,  \* SkillScorer.score argument
  preferred_skills, \* SkillScorer.score argument
  skill_result,     \* the SkillMatchResult returned, None before the call
  hybrid_skill,     \* the dict HybridMatcher._calculate_skill_match returns
  skill_op,         \* what preceded the last call: "first", "add", "variant"
  prev_score,       \* the score SkillScorer.score returned the call before
  ctor,             \* the constructor call made: class, args, object or error
  matcher,          \* the JobMatcher whose calls are followed
  pc,               \* where the call stands: "ready", "clearance", "semantic",
                    \* "skill", "experience", "result", "return", "filter", "done"
  mode,             \* the method called: "match", "match_batch", "get_top_matches"
  resume,           \* argument of the call
  jobs,             \* argument of the call (the one job of match as a list)
  sort_by_score,    \* parameter of match_batch
  sort_given,       \* whether the caller gave sort_by_score a value
  resume_embedding, \* what match_batch hands to match
  job_index,        \* the position of the loop over jobs
  semantic_score,   \* local of match, None before it is computed
  experience_score, \* local of match, None before it is computed
  results,          \* the results of the calls to match, as match_batch keeps them
  returned,         \* None until the call returns, then [value |-> ...]
  calls,            \* the calls made so far to the filter, scorers and encoder
  _encoding_cache,  \* EmbeddingService._encoding_cache, oldest entry first
  model_memo,       \* what the model has given for the texts it was asked
  call,             \* a call of one function alone: its name, arguments and
                    \* result, None before the call
  threads,          \* the locals of each thread in a call of JobMatcher.match
  services,         \* the _encoding_cache of each EmbeddingService created,
                    \* oldest entry first
  _embedding_service,        \* the global of embeddings/service.py: 0 for None,
                             \* or the position of the object in services
  scorer_embedding_service,  \* SemanticScorer._embedding_service of each
                             \* scorer, likewise
  model_gives,      \* the embedding the model gives for each text
  reads,            \* the shared variables each thread has read
  writes,           \* the shared variables each thread has written
  match_results,    \* the committed rows of the table match_results
  sessions          \* the requests to the match routes: the locals of each
                    \* handler and the rows its session has not committed

norm_vars == <<norm_pc, norm_x, norm_once, norm_twice>>
skill_vars ==
  <<resume_skills, required_skills, preferred_skills, skill_result, hybrid_skill,
    skill_op, prev_score>>
\* the variables of the skill specification that a match leaves alone
skill_inputs ==
  <<resume_skills, required_skills, preferred_skills, hybrid_skill, skill_op,
    prev_score>>
match_vars ==
  <<matcher, pc, mode, resume, jobs, sort_by_score, sort_given, resume_embedding, job_index,
    semantic_score, experience_score, results, returned, calls,
    _encoding_cache, model_memo>>
\* the variables of the specifications that follow the constructors and the
\* matcher
store_vars == <<match_results, sessions>>
thread_vars ==
  <<threads, services, _embedding_service, scorer_embedding_service,
    model_gives, reads, writes, store_vars>>
later_vars == <<call, thread_vars>>
vars == <<norm_vars, skill_vars, match_vars, ctor, later_vars>>

NormIdle ==
  /\ norm_pc = "idle"
  /\ norm_x = <<>>
  /\ norm_once = <<>>
  /\ norm_twice = <<>>

SkillIdle ==
  /\ resume_skills = <<>>
  /\ required_skills = <<>>
  /\ preferred_skills = <<>>
  /\ skill_result = None
  /\ hybrid_skill = None
  /\ skill_op = "none"
  /\ prev_score = None

MatchIdle ==
  /\ matcher = None
  /\ pc = "idle"
  /\ mode = "none"
  /\ resume = None
  /\ jobs = <<>>
  /\ sort_by_score = FALSE
  /\ sort_given = FALSE
  /\ resume_embedding = <<>>
  /\ job_index = 0
  /\ semantic_score = None
  /\ experience_score = None
  /\ results = <<>>
  /\ returned = None
  /\ calls = <<>>
  /\ _encoding_cache = <<>>
  /\ model_memo = <<>>

\* what a call of one function alone leaves unchanged
call_frame == <<norm_vars, skill_vars, match_vars, ctor>>
call_only_frame == <<call_frame, thread_vars>>

ThreadsIdle ==
  /\ threads = <<>>
  /\ services = <<>>
  /\ _embedding_service = 0
  /\ scorer_embedding_service = <<>>
  /\ model_gives = <<>>
  /\ reads = <<>>
  /\ writes = <<>>
  /\ match_results = {}
  /\ sessions = <<>>

LaterIdle ==
  /\ call = None
  /\ ThreadsIdle

(***************************************************************************)
(* normalize_skill applied once and twice to one input.                    *)
(***************************************************************************)
NormInit ==
  /\ norm_pc = "input"
  /\ norm_x \in NormInputs
  /\ norm_once = <<>>
  /\ norm_twice = <<>>
  /\ SkillIdle /\ MatchIdle /\ ctor = None /\ LaterIdle

NormalizeOnce ==
  /\ norm_pc = "input"
  /\ norm_once' = normalize_skill(norm_x)
  /\ norm_pc' = "once"
  /\ UNCHANGED <<norm_x, norm_twice, skill_vars, match_vars, ctor, later_vars>>

NormalizeTwice ==
  /\ norm_pc = "once"
  /\ norm_twice' = normalize_skill(norm_once)
  /\ norm_pc' = "twice"
  /\ UNCHANGED <<norm_x, norm_once, skill_vars, match_vars, ctor, later_vars>>

NormNext == NormalizeOnce \/ NormalizeTwice

SpecNormalize == NormInit /\ [][NormNext]_vars

(***************************************************************************)
(* The skill scorers applied to one job and a resume skill list that is    *)
(* extended or respelled between calls.                                    *)
(***************************************************************************)
SkillInit ==
  /\ \E inp \in SkillInputs :
       /\ resume_skills = inp.resume
       /\ required_skills = inp.required
       /\ preferred_skills = inp.preferred
  /\ skill_result = None
  /\ hybrid_skill = None
  /\ skill_op = "none"
  /\ prev_score = None
  /\ NormIdle /\ MatchIdle /\ ctor = None /\ LaterIdle

\* list with s inserted after its first pos elements
InsertAt(list, pos, s) ==
  SubSeq(list, 1, pos) \o <<s>> \o SubSeq(list, pos + 1, Len(list))

\* both scorers run on the skill list rs and the job's lists
ScoreLists(rs, op) ==
  /\ resume_skills' = rs
  /\ skill_result' = SkillScorer_score(rs, required_skills, preferred_skills)
  /\ hybrid_skill' = _calculate_skill_match(rs, required_skills, preferred_skills)
  /\ skill_op' = op
  /\ prev_score' = IF skill_result = None THEN None ELSE skill_result.score
  /\ UNCHANGED <<required_skills, preferred_skills, norm_vars, match_vars, ctor, later_vars>>

ScoreSkills ==
  /\ skill_result = None
  /\ ScoreLists(resume_skills, "first")

\* the scorers run again after the resume gained the skill s
ScoreWithAddedSkill(s, pos) ==
  /\ skill_result # None
  /\ Len(resume_skills) < MaxResumeSkills
  /\ ScoreLists(InsertAt(resume_skills, pos, s), "add")

\* the scorers run again after the i-th resume skill was respelled as s
ScoreWithVariant(i, s) ==
  /\ skill_result # None
  /\ <<resume_skills[i], s>> \in VariantPairs
  /\ ScoreLists([resume_skills EXCEPT ![i] = s], "variant")

SkillNext ==
  \/ ScoreSkills
  \/ \E s \in SkillUniverse, pos \in 0..Len(resume_skills) :
        ScoreWithAddedSkill(s, pos)
  \/ \E i \in 1..Len(resume_skills), s \in VariantForms : ScoreWithVariant(i, s)

SpecSkill == SkillInit /\ [][SkillNext]_vars

(***************************************************************************)
(* The constructors of the two matchers.                                   *)
(***************************************************************************)
CtorInit ==
  /\ ctor = None
  /\ NormIdle /\ SkillIdle /\ MatchIdle /\ LaterIdle

NewJobMatcher(semantic_weight, skill_weight, experience_weight) ==
  /\ ctor = None
  /\ ctor' = [class |-> "JobMatcher",
              args |-> <<semantic_weight, skill_weight, experience_weight>>,
              object |-> JobMatcher_init(semantic_weight, skill_weight,
                                         experience_weight)]
  /\ UNCHANGED <<norm_vars, skill_vars, match_vars, later_vars>>

NewHybridMatcher(semantic_weight, skill_weight) ==
  /\ ctor = None
  /\ ctor' = [class |-> "HybridMatcher",
              args |-> <<semantic_weight, skill_weight>>,
              object |-> HybridMatcher_init(semantic_weight, skill_weight)]
  /\ UNCHANGED <<norm_vars, skill_vars, match_vars, later_vars>>

CtorNext ==
  \/ \E sw \in Weights, kw \in Weights, ew \in Weights : NewJobMatcher(sw, kw, ew)
  \/ \E sw \in Weights \cup {None}, kw \in Weights \cup {None} :
        NewHybridMatcher(sw, kw)

SpecConstruct == CtorInit /\ [][CtorNext]_vars

(***************************************************************************)
(* JobMatcher.match, match_batch and get_top_matches, step by step.        *)
(***************************************************************************)
MatchInit ==
  /\ matcher \in {m \in {JobMatcher_init(w[1], w[2], w[3]) : w \in MatcherWeights} :
                    m.raised = ""}
  /\ pc = "ready"
  /\ mode = "none"
  /\ resume = None
  /\ jobs = <<>>
  /\ sort_by_score = FALSE
  /\ sort_given = FALSE
  /\ resume_embedding = NoEmbedding
  /\ job_index = 0
  /\ semantic_score = None
  /\ experience_score = None
  /\ results = <<>>
  /\ returned = None
  /\ calls = <<>>
  /\ _encoding_cache = <<>>
  /\ model_memo = <<>>
  /\ ctor = None
  /\ NormIdle /\ SkillIdle /\ LaterIdle

\* what the other specifications leave alone during a match
match_frame == <<norm_vars, skill_inputs, ctor, later_vars>>

\* the same without the record of a direct call
match_frame_without_call == <<norm_vars, skill_inputs, ctor, thread_vars>>

\* embedding_service.encode(text) where the model gives embedding for the
\* text: the result, the cache and the texts the model has been given
EncodeCall(cache, memo, text, embedding) ==
  LET encoded == EmbeddingService_encode(cache, text, embedding)
      key == str_strip(text)
  IN  [result |-> encoded.result,
       cache |-> encoded.cache,
       memo |-> IF encoded.model_called THEN (key :> embedding) @@ memo ELSE memo,
       \* the model gives one embedding per text
       possible |-> (encoded.model_called /\ key \in DOMAIN memo)
                      => memo[key] = embedding,
       calls |-> <<[op |-> "encode", text |-> text,
                    model_called |-> encoded.model_called]>>]

\* an embedding passed in by the caller: no call to encode
NoEncodeCall(cache, memo, embedding) ==
  [result |-> embedding, cache |-> cache, memo |-> memo, possible |-> TRUE,
   calls |-> <<>>]

\* SemanticScorer.score if it encoded the resume text whatever it was given
SemanticScorer_score_encoding_again(cache, memo, resume_text, job_text, resume_emb, job_emb, embedding1, embedding2) ==
  IF resume_text = <<>> \/ job_text = <<>>
  THEN [score |-> RatZero, cache |-> cache, memo |-> memo, possible |-> TRUE,
        calls |-> <<>>]
  ELSE LET first == EncodeCall(cache, memo, resume_text, embedding1)
           second == IF job_emb = NoEmbedding
                     THEN EncodeCall(first.cache, first.memo, job_text, embedding2)
                     ELSE NoEncodeCall(first.cache, first.memo, job_emb)
       IN  [score |-> clamp_similarity(cosine_similarity(first.result,
                                                         second.result)),
            cache |-> second.cache, memo |-> second.memo,
            possible |-> first.possible /\ second.possible,
            calls |-> first.calls \o second.calls]

\* SemanticScorer.score, where the model gives embedding1 and embedding2 for
\* the two texts
SemanticScorer_score(cache, memo, resume_text, job_text, resume_emb, job_emb, embedding1, embedding2) ==
  IF resume_text = <<>> \/ job_text = <<>>
  THEN [score |-> RatZero, cache |-> cache, memo |-> memo, possible |-> TRUE,
        calls |-> <<>>]
  ELSE LET first == IF resume_emb = NoEmbedding
                    THEN EncodeCall(cache, memo, resume_text, embedding1)
                    ELSE NoEncodeCall(cache, memo, resume_emb)
           second == IF job_emb = NoEmbedding
                     THEN EncodeCall(first.cache, first.memo, job_text, embedding2)
                     ELSE NoEncodeCall(first.cache, first.memo, job_emb)
       IN  [score |-> clamp_similarity(cosine_similarity(first.result,
                                                         second.result)),
            cache |-> second.cache, memo |-> second.memo,
            possible |-> first.possible /\ second.possible,
            calls |-> first.calls \o second.calls]

\* JobMatcher.match(resume, job) is called
Match(r, job) ==
  /\ pc = "ready"
  /\ mode' = "match"
  /\ resume' = r
  /\ jobs' = <<job>>
  /\ job_index' = 1
  /\ pc' = "clearance"
  /\ UNCHANGED <<matcher, sort_by_score, sort_given, resume_embedding, semantic_score,
                 skill_result, experience_score, results, returned, calls,
                 _encoding_cache, model_memo, match_frame>>

\* match_batch up to its loop: an empty list is returned at once, otherwise
\* the resume text is encoded if there is one
BatchStart(r, job_list, embedding) ==
  /\ resume' = r
  /\ jobs' = job_list
  /\ IF job_list = <<>>
     THEN /\ IF mode' = "match_batch"
             THEN returned' = [value |-> <<>>] /\ pc' = "done"
             ELSE UNCHANGED returned /\ pc' = "filter"
          /\ UNCHANGED <<job_index, resume_embedding, calls, _encoding_cache,
                         model_memo>>
     ELSE /\ LET encoded == IF r.raw_text # <<>>
                            THEN EncodeCall(_encoding_cache, model_memo,
                                            r.raw_text, embedding)
                            ELSE NoEncodeCall(_encoding_cache, model_memo,
                                              NoEmbedding)
             IN  /\ encoded.possible
                 /\ resume_embedding' = encoded.result
                 /\ _encoding_cache' = encoded.cache
                 /\ model_memo' = encoded.memo
                 /\ calls' = calls \o encoded.calls
          /\ job_index' = 1
          /\ pc' = "clearance"
          /\ UNCHANGED returned
  /\ UNCHANGED <<matcher, semantic_score, skill_result, experience_score,
                 results, match_frame>>

\* an optional argument: left out, or given with a value
Omitted == <<>>
Given(value) == <<value>>

\* JobMatcher.match_batch(resume, jobs) or
\* JobMatcher.match_batch(resume, jobs, sort_by_score=...) is called: the
\* parameter defaults to True
MatchBatch(r, job_list, sort, embedding) ==
  /\ pc = "ready"
  /\ mode' = "match_batch"
  /\ sort_given' = (sort # Omitted)
  /\ sort_by_score' = IF sort = Omitted THEN TRUE ELSE sort[1]
  /\ BatchStart(r, job_list, embedding)

\* JobMatcher.get_top_matches(resume, jobs, ...) is called: it calls
\* match_batch with sort_by_score=True
GetTopMatches(r, job_list, embedding) ==
  /\ pc = "ready"
  /\ mode' = "get_top_matches"
  /\ sort_given' = TRUE
  /\ sort_by_score' = TRUE
  /\ BatchStart(r, job_list, embedding)

\* the end of one JobMatcher.match inside the loop: the next job, or the end
\* of the call
NextJob ==
  IF job_index < Len(jobs)
  THEN job_index' = job_index + 1 /\ pc' = "clearance"
  ELSE UNCHANGED job_index /\ pc' = "return"

\* match, lines 112-134: the clearance detected in the resume text and the
\* hard filter; a resume below the requirement gets its result here
ClearanceFilter ==
  /\ pc = "clearance"
  /\ LET job == jobs[job_index]
         resume_clearance == detect_clearance_from_text(resume.raw_text)
         passed == meets_clearance_requirement(resume_clearance,
                                               job.clearance_level)
     IN  /\ calls' = Append(calls, [op |-> "clearance", job |-> job_index,
                                    resume_clearance |-> resume_clearance,
                                    job_clearance |-> job.clearance_level])
         /\ IF ~passed
            THEN /\ results' = Append(results,
                                      DisqualifiedResult(job, resume_clearance))
                 /\ NextJob
            ELSE /\ pc' = "semantic"
                 /\ UNCHANGED <<results, job_index>>
  /\ UNCHANGED <<matcher, mode, resume, jobs, sort_by_score, sort_given, resume_embedding,
                 semantic_score, skill_result, experience_score, returned,
                 _encoding_cache, model_memo, match_frame>>

\* match, lines 136-142: the semantic scorer
SemanticScore ==
  /\ pc = "semantic"
  /\ \E embedding1 \in Embeddings, embedding2 \in Embeddings :
       LET scored == SemanticScorer_score(_encoding_cache, model_memo,
                                          resume.raw_text,
                                          jobs[job_index].description,
                                          resume_embedding, NoEmbedding,
                                          embedding1, embedding2)
       IN  /\ scored.possible
           /\ semantic_score' = scored.score
           /\ _encoding_cache' = scored.cache
           /\ model_memo' = scored.memo
           /\ calls' = Append(calls, [op |-> "semantic_scorer.score",
                                      job |-> job_index]) \o scored.calls
  /\ pc' = "skill"
  /\ UNCHANGED <<matcher, mode, resume, jobs, sort_by_score, sort_given, resume_embedding,
                 job_index, skill_result, experience_score, results, returned,
                 match_frame>>

\* match, lines 144-149: the skill scorer
SkillScore ==
  /\ pc = "skill"
  /\ skill_result' = SkillScorer_score(resume.skills,
                                       jobs[job_index].required_skills,
                                       jobs[job_index].preferred_skills)
  /\ calls' = Append(calls, [op |-> "skill_scorer.score", job |-> job_index])
  /\ pc' = "experience"
  /\ UNCHANGED <<matcher, mode, resume, jobs, sort_by_score, sort_given, resume_embedding,
                 job_index, semantic_score, experience_score, results,
                 returned, _encoding_cache, model_memo, match_frame>>

\* match, lines 151-160: the experience scorer
ExperienceScore ==
  /\ pc = "experience"
  /\ \E now \in Nows :
       experience_score' =
         ExperienceScorer_score(_estimate_experience_years(resume),
                                jobs[job_index].min_experience_years,
                                resume.experience, now)
  /\ calls' = Append(calls, [op |-> "experience_scorer.score",
                             job |-> job_index])
  /\ pc' = "result"
  /\ UNCHANGED <<matcher, mode, resume, jobs, sort_by_score, sort_given, resume_embedding,
                 job_index, semantic_score, skill_result, results, returned,
                 _encoding_cache, model_memo, match_frame>>

\* match, lines 162-200: the composite score, the recommendations, the
\* result and its explanation
BuildResult ==
  /\ pc = "result"
  /\ results' = Append(results,
                       WithExplanation(ScoredResult(matcher, jobs[job_index],
                                                    semantic_score,
                                                    skill_result,
                                                    experience_score)))
  /\ semantic_score' = None
  /\ skill_result' = None
  /\ experience_score' = None
  /\ NextJob
  /\ UNCHANGED <<matcher, mode, resume, jobs, sort_by_score, sort_given, resume_embedding,
                 returned, calls, _encoding_cache, model_memo, match_frame>>

\* match returns its result to the caller
ReturnMatch ==
  /\ pc = "return"
  /\ mode = "match"
  /\ returned' = [value |-> results[1]]
  /\ pc' = "done"
  /\ UNCHANGED <<matcher, mode, resume, jobs, sort_by_score, sort_given, resume_embedding,
                 job_index, semantic_score, skill_result, experience_score,
                 results, calls, _encoding_cache, model_memo, match_frame>>

\* match_batch after its loop: the results are sorted in place if asked for,
\* and returned to the caller or to get_top_matches
ReturnBatch ==
  /\ pc = "return"
  /\ mode \in {"match_batch", "get_top_matches"}
  /\ results' = IF sort_by_score THEN sort_by_score_desc(results) ELSE results
  /\ IF mode = "match_batch"
     THEN returned' = [value |-> results'] /\ pc' = "done"
     ELSE UNCHANGED returned /\ pc' = "filter"
  /\ UNCHANGED <<matcher, mode, resume, jobs, sort_by_score, sort_given, resume_embedding,
                 job_index, semantic_score, skill_result, experience_score,
                 calls, _encoding_cache, model_memo, match_frame>>

\* get_top_matches after match_batch returned: the filter and the slice.
\* top_k, min_score and require_clearance are read only here.
FilterTopMatches(top_k, min_score, require_clearance) ==
  /\ pc = "filter"
  /\ returned' = [value |-> top_matches(results, top_k, min_score,
                                        require_clearance),
                  top_k |-> top_k, min_score |-> min_score,
                  require_clearance |-> require_clearance]
  /\ pc' = "done"
  /\ UNCHANGED <<matcher, mode, resume, jobs, sort_by_score, sort_given, resume_embedding,
                 job_index, semantic_score, skill_result, experience_score,
                 results, calls, _encoding_cache, model_memo, match_frame>>

(***************************************************************************)
(* Calls of HybridMatcher and of SemanticScorer.score_batch, which work    *)
(* with the same embedding service as JobMatcher.                          *)
(***************************************************************************)
\* the HybridMatcher objects whose calls are followed
HybridWeights == {<<None, None>>, <<Rat(500, 1000), Rat(500, 1000)>>}
HybridMatchers ==
  {m \in {HybridMatcher_init(w[1], w[2]) : w \in HybridWeights} : m.raised = ""}

\* resumes as HybridMatcher reads them
HybridResumes ==
  {[raw_text |-> <<>>, skills |-> <<>>, experience |-> <<>>, education |-> <<>>],
   [raw_text |-> <<"P", "y", "t", "h", "o", "n", " ", "d", "e", "v">>, skills |-> <<s_Python, s_JS>>,
    experience |-> <<[is_current |-> TRUE]>>,
    education |-> <<[degree |-> <<"B", "S">>], [degree |-> NoneStr]>>],
   [raw_text |-> <<"T", "S", "/", "S", "C", "I">>, skills |-> <<s_python, s_K8s, s_tf>>,
    experience |-> <<[is_current |-> FALSE], [is_current |-> FALSE],
                     [is_current |-> TRUE]>>,
    education |-> <<[degree |-> NoneStr]>>]}

\* jobs of models/job.py
HybridJobs ==
  {[job_id |-> <<"h", "1">>, raw_text |-> <<"P", "y", "t", "h", "o", "n", " ", "d", "e", "v">>,
    required_skills |-> <<s_Python>>, preferred_skills |-> <<s_kubernetes>>,
    min_experience_years |-> NoneInt, education_requirements |-> <<>>],
   [job_id |-> <<"h", "2">>, raw_text |-> <<" ", "C", "l", "e", "a", "r", "e", "d", " ", "J", "S", " ", "a", "n", "a", "l", "y", "s", "t", " ">>,
    required_skills |-> <<s_JavaScript, s_Terraform>>,
    preferred_skills |-> <<>>, min_experience_years |-> SomeInt(5),
    education_requirements |-> <<<<"B", "S">>>>],
   [job_id |-> <<"h", "3">>, raw_text |-> <<>>, required_skills |-> <<>>,
    preferred_skills |-> <<>>, min_experience_years |-> SomeInt(1),
    education_requirements |-> <<<<"B", "S">>>>]}

HybridJobLists == BoundedSeq(HybridJobs, MaxJobs)

\* an embedding argument: None or an embedding computed before
EmbeddingArgs == {NoEmbedding} \cup Embeddings

\* what the model may give for the texts of a call
ModelOutputs(texts) ==
  [{str_strip(t) : t \in texts} \ {<<>>} -> Embeddings]

\* the texts of a list of jobs
RawTexts(job_list) == [n \in DOMAIN job_list |-> job_list[n].raw_text]

\* HybridMatcher.match: the result, the cache and the calls made
HybridMatcher_match(self, cache, memo, r, job, resume_embedding_arg, job_embedding_arg, emb) ==
  LET first == IF resume_embedding_arg = NoEmbedding
               THEN EncodeCall(cache, memo, r.raw_text,
                               ModelOutput(emb, r.raw_text))
               ELSE NoEncodeCall(cache, memo, resume_embedding_arg)
      second == IF job_embedding_arg = NoEmbedding
                THEN EncodeCall(first.cache, first.memo, job.raw_text,
                                ModelOutput(emb, job.raw_text))
                ELSE NoEncodeCall(first.cache, first.memo, job_embedding_arg)
  IN  [result |-> HybridResult(self, r, job,
                               _calculate_skill_match(r.skills,
                                                      job.required_skills,
                                                      job.preferred_skills),
                               cosine_similarity(first.result, second.result)),
       cache |-> second.cache, memo |-> second.memo,
       calls |-> first.calls \o second.calls]

\* one round of the loop of HybridMatcher.match_batch: both embeddings are
\* given, so that match leaves the cache alone
HybridBatchMatch(self, r, job, resume_embedding_arg, job_embedding_arg) ==
  LET matched == HybridMatcher_match(self, <<>>, <<>>, r, job,
                                     resume_embedding_arg, job_embedding_arg,
                                     <<>>)
  IN  [result |-> [matched.result EXCEPT !.job_id = job.job_id],
       calls |-> matched.calls]

\* the calls of the rounds one after the other
RECURSIVE CallsOfRounds(_)
CallsOfRounds(rounds) ==
  IF rounds = <<>> THEN <<>>
  ELSE rounds[1].calls \o CallsOfRounds(Tail(rounds))

\* HybridMatcher.match_batch: the results, the cache and the calls made
HybridMatcher_match_batch(self, cache, memo, r, job_list, resume_embedding_arg, emb) ==
  IF job_list = <<>>
  THEN [result |-> <<>>, cache |-> cache, memo |-> memo, calls |-> <<>>]
  ELSE LET first == IF resume_embedding_arg = NoEmbedding
                    THEN EncodeCall(cache, memo, r.raw_text,
                                    ModelOutput(emb, r.raw_text))
                    ELSE NoEncodeCall(cache, memo, resume_embedding_arg)
           job_embeddings ==
             EmbeddingService_encode_batch(RawTexts(job_list), emb)
           rounds == [n \in DOMAIN job_list |->
                        HybridBatchMatch(self, r, job_list[n], first.result,
                                         job_embeddings[n])]
       IN  [result |-> [n \in DOMAIN job_list |-> rounds[n].result],
            cache |-> first.cache,
            memo |-> emb @@ first.memo,
            calls |-> first.calls
                      \o <<[op |-> "encode_batch", texts |-> RawTexts(job_list)]>>
                      \o CallsOfRounds(rounds)]

\* SemanticScorer.score_batch: the scores, the cache and the calls made
SemanticScorer_score_batch(cache, memo, resume_text, job_texts, resume_embedding_arg, emb) ==
  IF resume_text = <<>> \/ job_texts = <<>>
  THEN [result |-> <<>>, cache |-> cache, memo |-> memo, calls |-> <<>>]
  ELSE LET first == IF resume_embedding_arg = NoEmbedding
                    THEN EncodeCall(cache, memo, resume_text,
                                    ModelOutput(emb, resume_text))
                    ELSE NoEncodeCall(cache, memo, resume_embedding_arg)
           job_embeddings == EmbeddingService_encode_batch(job_texts, emb)
       IN  [result |-> [n \in DOMAIN job_texts |->
                          clamp_similarity(cosine_similarity(first.result,
                                                             job_embeddings[n]))],
            cache |-> first.cache,
            memo |-> emb @@ first.memo,
            calls |-> first.calls
                      \o <<[op |-> "encode_batch", texts |-> job_texts]>>]

\* what a call made directly on the shared service leaves unchanged
direct_frame ==
  <<matcher, mode, resume, jobs, sort_by_score, sort_given, resume_embedding, job_index,
    semantic_score, skill_result, experience_score, results, returned,
    match_frame_without_call>>

\* a direct call has returned: its record, and what it did to the service
Returned(record, out) ==
  /\ pc = "ready"
  /\ call' = [returned |-> out.result] @@ record
  /\ _encoding_cache' = out.cache
  /\ model_memo' = out.memo
  /\ calls' = calls \o <<[op |-> record.fn]>> \o out.calls
  /\ pc' = "done"
  /\ UNCHANGED direct_frame

\* HybridMatcher.match(resume, job, resume_embedding, job_embedding)
HybridMatch(self, r, job, resume_embedding_arg, job_embedding_arg, emb) ==
  Returned([fn |-> "HybridMatcher.match", self |-> self, resume |-> r,
            job |-> job, resume_embedding |-> resume_embedding_arg,
            job_embedding |-> job_embedding_arg],
           HybridMatcher_match(self, _encoding_cache, model_memo, r, job,
                               resume_embedding_arg, job_embedding_arg, emb))

\* HybridMatcher.match_batch(resume, jobs, resume_embedding)
HybridMatchBatch(self, r, job_list, resume_embedding_arg, emb) ==
  Returned([fn |-> "HybridMatcher.match_batch", self |-> self, resume |-> r,
            jobs |-> job_list, resume_embedding |-> resume_embedding_arg],
           HybridMatcher_match_batch(self, _encoding_cache, model_memo, r,
                                     job_list, resume_embedding_arg, emb))

\* SemanticScorer.score_batch(resume_text, job_texts, resume_embedding)
ScoreBatch(resume_text, job_texts, resume_embedding_arg, emb) ==
  Returned([fn |-> "SemanticScorer.score_batch", resume_text |-> resume_text,
            job_texts |-> job_texts, resume_embedding |-> resume_embedding_arg],
           SemanticScorer_score_batch(_encoding_cache, model_memo, resume_text,
                                      job_texts, resume_embedding_arg, emb))

\* the direct calls
DirectCalls ==
  \/ /\ pc = "ready"
     /\ \E self \in HybridMatchers, r \in HybridResumes, job \in HybridJobs,
           resume_embedding_arg \in EmbeddingArgs,
           job_embedding_arg \in EmbeddingArgs :
           \E emb \in ModelOutputs({r.raw_text, job.raw_text}) :
              HybridMatch(self, r, job, resume_embedding_arg, job_embedding_arg, emb)
  \/ /\ pc = "ready"
     /\ \E self \in HybridMatchers, r \in HybridResumes,
           job_list \in HybridJobLists, resume_embedding_arg \in EmbeddingArgs :
           \E emb \in ModelOutputs({r.raw_text} \cup Range(RawTexts(job_list))) :
              HybridMatchBatch(self, r, job_list, resume_embedding_arg, emb)
  \/ /\ pc = "ready"
     /\ \E r \in HybridResumes, job_list \in HybridJobLists,
           resume_embedding_arg \in EmbeddingArgs :
           \E emb \in ModelOutputs({r.raw_text} \cup Range(RawTexts(job_list))) :
              ScoreBatch(r.raw_text, RawTexts(job_list), resume_embedding_arg, emb)

JobLists == BoundedSeq(Jobs, MaxJobs)

Next ==
  \/ \E r \in Resumes, job \in Jobs : Match(r, job)
  \/ \E r \in Resumes, job_list \in JobLists,
        sort \in {Omitted, Given(TRUE), Given(FALSE)},
        embedding \in Embeddings : MatchBatch(r, job_list, sort, embedding)
  \/ \E r \in Resumes, job_list \in JobLists, embedding \in Embeddings :
        GetTopMatches(r, job_list, embedding)
  \/ ClearanceFilter
  \/ SemanticScore
  \/ SkillScore
  \/ ExperienceScore
  \/ BuildResult
  \/ ReturnMatch
  \/ ReturnBatch
  \/ \E top_k \in TopKs, min_score \in MinScores, require_clearance \in BOOLEAN :
        FilterTopMatches(top_k, min_score, require_clearance)
  \/ DirectCalls

Spec == MatchInit /\ [][Next]_vars

(***************************************************************************)
(* Claims about JobMatcher and the constructors.                           *)
(***************************************************************************)
\* every result match has produced so far, and every result returned
AllResults ==
  Range(results)
    \cup (IF returned = None THEN {}
          ELSE IF mode = "match" THEN {returned.value}
          ELSE Range(returned.value))

\* the job a result was computed for
JobOf(r) == CHOOSE job \in Jobs : job.job_id = r.job_id

\* the clearance level match detected in the resume text, as it was logged
DetectedLevels == {calls[n].resume_clearance : n \in {m \in DOMAIN calls : calls[m].op = "clearance"}}

\* C1: a result flagged disqualified has score 0 and a non-empty
\* disqualification reason, and a result not flagged disqualified has no
\* disqualification reason; this holds for the results of match and for the
\* results match_batch and get_top_matches return.
C1_DisqualifiedHasReason ==
  \A r \in AllResults :
     /\ r.disqualified =>
          /\ RatEq(r.score, RatZero)
          /\ r.disqualification_reason # NoneStr
          /\ Len(r.disqualification_reason) > 0
     /\ ~r.disqualified => r.disqualification_reason = NoneStr

\* C1 witness: match_batch has returned a list holding a disqualified result
\* and a result that is not disqualified
C1_Witness ==
  /\ pc = "done"
  /\ mode = "match_batch"
  /\ \E m, n \in DOMAIN returned.value :
        /\ returned.value[m].disqualified
        /\ ~returned.value[n].disqualified

\* C2: a result is disqualified exactly when the level detected in the
\* resume text is lower than the level the job requires, in the order
\* NONE < PUBLIC_TRUST < SECRET < TOP_SECRET < TS_SCI; so a job requiring NONE
\* disqualifies nobody and a resume detected at NONE is disqualified by every
\* job requiring more.
C2_DisqualifiedIffLower ==
  \A r \in AllResults : \A detected \in DetectedLevels :
     /\ r.disqualified <=> detected < JobOf(r).clearance_level
     /\ JobOf(r).clearance_level = NONE => ~r.disqualified
     /\ (detected = NONE /\ JobOf(r).clearance_level > NONE) => r.disqualified

\* C2 witness: one resume with a detected level above NONE is disqualified
\* by a job requiring more and eligible for a job requiring a level above
\* NONE that it reaches
C2_Witness ==
  /\ pc = "return"
  /\ \E detected \in DetectedLevels : \E m, n \in DOMAIN results :
        /\ detected > NONE
        /\ results[m].disqualified
        /\ detected < JobOf(results[m]).clearance_level
        /\ ~results[n].disqualified
        /\ JobOf(results[n]).clearance_level > NONE

ScorerOps == {"semantic_scorer.score", "skill_scorer.score", "experience_scorer.score"}

\* the clearance check for the job at position k of the call, where it was made
ClearanceChecks(k) == {m \in DOMAIN calls : calls[m].op = "clearance" /\ calls[m].job = k}

\* C3: a scorer is invoked for a job only after the clearance check for that
\* job has passed; when the check fails the disqualified result is produced
\* and none of the three scorers is ever invoked for that job, in a single
\* match and for each job of a batch.
C3_ScorersOnlyAfterClearance ==
  /\ \A n \in DOMAIN calls :
        calls[n].op \in ScorerOps =>
          \E m \in ClearanceChecks(calls[n].job) :
             /\ m < n
             /\ calls[m].resume_clearance >= calls[m].job_clearance
  /\ \A k \in DOMAIN jobs : \A m \in ClearanceChecks(k) :
        calls[m].resume_clearance < calls[m].job_clearance =>
          /\ \A n \in DOMAIN calls : calls[n].op \in ScorerOps => calls[n].job # k
          /\ pc \in {"return", "filter", "done"} =>
               \E r \in AllResults : r.disqualified /\ r.job_id = jobs[k].job_id
  /\ \A k \in DOMAIN jobs : Cardinality(ClearanceChecks(k)) <= 1

\* C3 witness: a batch is over in which the clearance check failed for one
\* job and the three scorers ran for another
C3_Witness ==
  /\ pc = "done"
  /\ mode \in {"match_batch", "get_top_matches"}
  /\ \E m \in DOMAIN calls :
        /\ calls[m].op = "clearance"
        /\ calls[m].resume_clearance < calls[m].job_clearance
  /\ \A op \in ScorerOps : \E n \in DOMAIN calls : calls[n].op = op

RatInUnitInterval(x) == RatLeq(RatZero, x) /\ RatLeq(x, RatOne)

\* C4: for a JobMatcher whose construction succeeded, the composite score of
\* a result that is not disqualified lies within [0, 100] and each of its
\* three component scores lies within [0, 1].
C4_ScoreWithinBounds ==
  \A r \in AllResults :
     ~r.disqualified =>
        /\ RatLeq(RatZero, r.score)
        /\ RatLeq(r.score, Rat(100, 1))
        /\ RatInUnitInterval(r.semantic_score)
        /\ RatInUnitInterval(r.skill_score)
        /\ RatInUnitInterval(r.experience_score)

\* the weights a constructor call works with, in thousandths
ThousandthsOf(w) == (w.num * 1000) \div w.den
SuppliedThousandths ==
  IF ctor.class = "JobMatcher"
  THEN ThousandthsOf(ctor.args[1]) + ThousandthsOf(ctor.args[2]) + ThousandthsOf(ctor.args[3])
  ELSE ThousandthsOf(IF ctor.args[1] = None THEN settings.semantic_weight ELSE ctor.args[1])
       + ThousandthsOf(IF ctor.args[2] = None THEN settings.skill_weight ELSE ctor.args[2])

\* C5: the constructor of JobMatcher and of HybridMatcher raises ValueError
\* whenever the weights do not sum to 1.0, so the weights of every matcher
\* that exists sum to 1.0.
C5_ValueErrorUnlessWeightsSumToOne ==
  ctor # None =>
     /\ SuppliedThousandths # 1000 => ctor.object.raised = "ValueError"
     /\ ctor.object.raised = "" =>
          RatEq(IF ctor.class = "JobMatcher"
                THEN RatAdd(RatAdd(ctor.object.semantic_weight,
                                   ctor.object.skill_weight),
                            ctor.object.experience_weight)
                ELSE RatAdd(ctor.object.semantic_weight,
                            ctor.object.skill_weight),
                RatOne)

(***************************************************************************)
(* Claims about the skill scorers.                                         *)
(***************************************************************************)
\* the canonical keys of the skills of a list; an empty string is no skill
CanonicalKeys(skills) ==
  {normalize_skill(s) : s \in Range(skills) \ {<<>>}}

\* C6: the skill score is (2|R n S| + |P n S|) / (2|R| + |P|) over the
\* canonical key sets, never above 1, and 1/2 when the job lists no skill;
\* the first test scenario scores 1 with nothing missing
C6_SkillScoreFormula ==
  skill_result # None =>
    LET S == CanonicalKeys(resume_skills)
        R == CanonicalKeys(required_skills)
        P == CanonicalKeys(preferred_skills)
        total == 2 * Cardinality(R) + Cardinality(P)
    IN  /\ total > 0 =>
              RatEq(skill_result.score,
                    Rat(2 * Cardinality(R \cap S) + Cardinality(P \cap S), total))
        /\ RatLeq(skill_result.score, RatOne)
        /\ total = 0 => RatEq(skill_result.score, Rat(1, 2))
        /\ ( /\ resume_skills = <<s_Python, s_Django, s_PostgreSQL>>
             /\ required_skills = <<s_Python, s_Django>>
             /\ preferred_skills = <<s_PostgreSQL>> )
           => /\ RatEq(skill_result.score, RatOne)
              /\ skill_result.missing_required = <<>>
              /\ skill_result.missing_preferred = <<>>

\* C6 witness: a job with a required and a preferred skill of which the
\* resume has only the preferred one scored 1/3
C6_Witness ==
  /\ skill_result # None
  /\ required_skills = <<s_JS>>
  /\ preferred_skills = <<s_Qux_padded>>
  /\ resume_skills = <<s_Qux_padded>>
  /\ RatEq(skill_result.score, Rat(1, 3))

\* C7: a call whose resume skill list contains every skill of the list of
\* the call before it, for the same job, returns a score at least as high
C7_SkillScoreMonotonic ==
  [][(/\ skill_result # None
      /\ skill_result' # None
      /\ Range(resume_skills) \subseteq Range(resume_skills'))
       => RatLeq(skill_result.score, skill_result'.score)]_vars

\* C7 witness: a skill was added to the resume and the score rose
C7_Witness ==
  /\ skill_op = "add"
  /\ prev_score # None
  /\ RatLess(prev_score, skill_result.score)

\* a step that respells one resume skill as a case variant or as a synonym
\* SKILL_SYNONYMS lists, or that adds a skill the resume lists already
SynonymOrDuplicateStep ==
  /\ skill_result # None
  /\ skill_result' # None
  /\ \/ /\ Len(resume_skills') = Len(resume_skills)
        /\ \A i \in 1..Len(resume_skills) :
              \/ resume_skills'[i] = resume_skills[i]
              \/ /\ resume_skills[i] # <<>>
                 /\ resume_skills'[i] # <<>>
                 /\ ListedVariant(resume_skills[i], resume_skills'[i])
     \/ /\ Len(resume_skills') = Len(resume_skills) + 1
        /\ Range(resume_skills') = Range(resume_skills)

\* C8: a job skill is matched exactly when the resume lists a skill of the
\* same canonical key; respelling a resume skill as a listed synonym or a
\* case variant, or listing it twice, changes neither the score nor the
\* matched and missing lists; [JS, ReactJS, NodeJS] matches all three of
\* [JavaScript, React, Node.js]
C8_SynonymInsensitive ==
  /\ [](skill_result # None =>
          /\ \A j \in (Range(required_skills) \cup Range(preferred_skills)) \ {<<>>} :
                (normalize_skill(j) \in CanonicalKeys(skill_result.matched_skills))
                  <=> (normalize_skill(j) \in CanonicalKeys(resume_skills))
          /\ ( /\ resume_skills = <<s_JS, s_ReactJS, s_NodeJS>>
               /\ required_skills = <<s_JavaScript, s_React, s_Node_js>>
               /\ preferred_skills = <<>> )
             => /\ Len(skill_result.matched_skills) = 3
                /\ skill_result.missing_required = <<>>)
  /\ [][SynonymOrDuplicateStep => skill_result' = skill_result]_vars

\* C10: every name in the matched and missing lists of a skill match is a
\* name of the job's required or preferred list, spelled as the job spells it
C10_DisplayNamesFromJob ==
  skill_result # None =>
    LET job_names == Range(required_skills) \cup Range(preferred_skills)
    IN  /\ Range(skill_result.matched_skills) \subseteq job_names
        /\ Range(skill_result.missing_required) \subseteq job_names
        /\ Range(skill_result.missing_preferred) \subseteq job_names
        /\ Range(hybrid_skill.matched) \subseteq job_names
        /\ Range(hybrid_skill.missing_required) \subseteq job_names
        /\ Range(hybrid_skill.missing_preferred) \subseteq job_names

(***************************************************************************)
(* Claims about normalize_skill.                                           *)
(***************************************************************************)
\* C9: normalising a normalised skill changes nothing, and "K8s",
\* "kubernetes" and "kube" all normalise to the key "kubernetes"
C9_NormalizeIdempotent ==
  /\ norm_pc = "twice" => norm_twice = norm_once
  /\ (norm_pc \in {"once", "twice"} /\ norm_x \in {s_K8s, s_kubernetes, s_kube})
        => norm_once = s_kubernetes

\* C9 witness: a known synonym in mixed case has been normalised twice
C9_Witness ==
  /\ norm_pc = "twice"
  /\ norm_x = s_K8s
  /\ norm_twice = s_kubernetes
(***************************************************************************)
(* ExperienceScorer.score called alone.                                    *)
(***************************************************************************)
\* the longest list of experience entries
MaxEntries == 2

\* work entries: dated, current, without dates, without end, ending before
\* the start
ExperienceEntries ==
  {[start_date |-> <<"2", "0", "1", "8", "-", "0", "1">>, end_date |-> <<"2", "0", "2", "0", "-", "0", "1">>, is_current |-> FALSE],
   [start_date |-> <<"J", "a", "n", " ", "2", "0", "1", "5">>, end_date |-> <<"P", "r", "e", "s", "e", "n", "t">>, is_current |-> TRUE],
   [start_date |-> NoneStr, end_date |-> NoneStr, is_current |-> FALSE],
   [start_date |-> <<"0", "3", "/", "2", "0", "1", "9">>, end_date |-> NoneStr, is_current |-> FALSE],
   [start_date |-> <<"2", "0", "2", "1", "-", "0", "6">>, end_date |-> <<"2", "0", "2", "0">>, is_current |-> FALSE]}

\* resume_years: None, or a number of half years
ScoreYears == {None} \cup {Rat(n, 2) : n \in {-2, 0, 1, 2, 4, 5, 6, 10, 12, 20}}

\* job_min_years
ScoreMinYears == {-1, 0, 1, 2, 3, 5, 10}

ExperienceInit ==
  /\ LaterIdle
  /\ NormIdle /\ SkillIdle /\ MatchIdle /\ ctor = None

\* scorer.score(resume_years, job_min_years, experience_entries) at time now
CallExperienceScore(resume_years, job_min_years, experience_entries, now) ==
  /\ call = None
  /\ call' = [fn |-> "ExperienceScorer.score",
              resume_years |-> resume_years,
              job_min_years |-> job_min_years,
              experience_entries |-> experience_entries,
              now |-> now,
              returned |-> ExperienceScorer_score(resume_years, job_min_years,
                                                  experience_entries, now)]
  /\ UNCHANGED call_only_frame

ExperienceNext ==
  \E resume_years \in ScoreYears, job_min_years \in ScoreMinYears,
     experience_entries \in BoundedSeq(ExperienceEntries, MaxEntries),
     now \in Nows :
       CallExperienceScore(resume_years, job_min_years, experience_entries, now)

SpecExperience == ExperienceInit /\ [][ExperienceNext]_vars

\* the years the scorer works with when something is known of the candidate
KnownYears ==
  IF call.resume_years # None THEN call.resume_years
  ELSE Rat(TotalMonths(call.experience_entries, call.now), 12)

\* C11: ExperienceScorer.score returns 1.0 when the job has no minimum
\* years; otherwise 0.5 when there is neither a years estimate nor an
\* experience entry; otherwise 1.0 when years >= required, 0.0 when
\* years <= 0 and years / required in between (2 years against 5 gives
\* 0.4). The result lies within [0, 1].
C11_ExperienceScoreCases ==
  (call # None /\ call.fn = "ExperienceScorer.score") =>
     LET required == Rat(call.job_min_years, 1)
         unknown == call.resume_years = None /\ call.experience_entries = <<>>
     IN  /\ call.job_min_years <= 0 => RatEq(call.returned, RatOne)
         /\ (call.job_min_years > 0 /\ unknown) =>
               RatEq(call.returned, Rat(1, 2))
         /\ (call.job_min_years > 0 /\ ~unknown) =>
               /\ RatLeq(required, KnownYears) => RatEq(call.returned, RatOne)
               /\ RatLeq(KnownYears, RatZero) => RatEq(call.returned, RatZero)
               /\ (RatLess(RatZero, KnownYears) /\ RatLess(KnownYears, required)) =>
                     RatEq(RatMul(call.returned, required), KnownYears)
         /\ (call.resume_years # None /\ RatEq(call.resume_years, Rat(2, 1))
               /\ call.job_min_years = 5) => RatEq(call.returned, Rat(4, 10))
         /\ RatLeq(RatZero, call.returned)
         /\ RatLeq(call.returned, RatOne)

\* C11 witness: 2 years against a minimum of 5 years scored 0.4
C11_Witness ==
  /\ call # None
  /\ call.fn = "ExperienceScorer.score"
  /\ call.resume_years # None
  /\ RatEq(call.resume_years, Rat(2, 1))
  /\ call.job_min_years = 5
  /\ RatEq(call.returned, Rat(2, 5))

(***************************************************************************)
(* The years of experience a match works with.                             *)
(***************************************************************************)
\* the years the three estimates give when tried in the order: the figure in
\* the text, the durations of the entries, 2.5 years for each position
YearsInClaimedOrder(r, now) ==
  LET from_text == IF r.raw_text # <<>>
                   THEN estimate_years_from_text(r.raw_text)
                   ELSE None
  IN  IF from_text # None THEN from_text
      ELSE IF r.experience # <<>>
      THEN estimate_years_from_entries(r.experience, now)
      ELSE None

\* C12: the years used for the experience score of a match are the figure
\* found in the resume text; without one, the sum of the durations of the
\* experience entries; and 2.5 years for each position only when that is
\* unavailable too.
C12_YearsEstimateOrder ==
  (pc = "result" /\ jobs[job_index].min_experience_years > 0) =>
     \E now \in Nows :
        LET years == YearsInClaimedOrder(resume, now)
        IN  IF years = None
            THEN RatEq(experience_score, Rat(1, 2))
            ELSE RatEq(experience_score,
                       YearsScore(years, jobs[job_index].min_experience_years))


(***************************************************************************)
(* The order of the results of a batch.                                    *)
(***************************************************************************)
\* the list is in non-increasing order of score
NonIncreasingScore(list) ==
  \A n \in 1..(Len(list) - 1) : RatLeq(list[n + 1].score, list[n].score)

\* the job_id of each element, as a bag
JobIdBag(list) ==
  [id \in {list[n].job_id : n \in DOMAIN list} |->
     Cardinality({n \in DOMAIN list : list[n].job_id = id})]

\* the i-th result belongs to the i-th job
InJobOrder(result_list, job_list) ==
  /\ Len(result_list) = Len(job_list)
  /\ \A n \in DOMAIN job_list : result_list[n].job_id = job_list[n].job_id

\* the results are those of the jobs, one each, in some order
OnePerJob(result_list, job_list) ==
  /\ Len(result_list) = Len(job_list)
  /\ JobIdBag(result_list) = JobIdBag(job_list)

\* JobMatcher.match_batch has returned
BatchReturned == pc = "done" /\ mode = "match_batch"

\* HybridMatcher.match_batch has returned
HybridBatchReturned ==
  /\ pc = "done"
  /\ call # None
  /\ call.fn = "HybridMatcher.match_batch"

\* C13: a batch returns one result per job; unless the caller asked for the
\* sort by score, the i-th result belongs to the i-th job; when the caller
\* asked for it, the results are the same ones in non-increasing order of score
C13_BatchOrderUnlessSortRequested ==
  /\ BatchReturned =>
       /\ OnePerJob(returned.value, jobs)
       /\ IF sort_given /\ sort_by_score
          THEN NonIncreasingScore(returned.value)
          ELSE InJobOrder(returned.value, jobs)
  /\ HybridBatchReturned => InJobOrder(call.returned, call.jobs)

(***************************************************************************)
(* The encoding of the resume text in a batch.                             *)
(***************************************************************************)
\* the calls to encode that follow call k before any other call
RECURSIVE EncodesAfter(_)
EncodesAfter(k) ==
  IF k + 1 \in DOMAIN calls /\ calls[k + 1].op = "encode"
  THEN 1 + EncodesAfter(k + 1)
  ELSE 0

\* the calls to semantic_scorer.score, by position
ScoreCalls == {k \in DOMAIN calls : calls[k].op = "semantic_scorer.score"}

\* all the calls to encode, by position
EncodeCalls == {k \in DOMAIN calls : calls[k].op = "encode"}

\* a batch of JobMatcher is under way or over
InBatch == mode \in {"match_batch", "get_top_matches"} /\ pc # "ready"

\* a batch on the embedding service directly is over
DirectBatch ==
  /\ call # None
  /\ call.fn \in {"HybridMatcher.match_batch", "SemanticScorer.score_batch"}

\* C14: in one batch the resume text is encoded at most once, before the
\* loop over the jobs; each match of the batch is given that embedding and
\* encodes no more than the text of its job
C14_ResumeEncodedOncePerBatch ==
  /\ InBatch =>
       /\ EncodesAfter(0) <= 1
       /\ EncodesAfter(0) = 1 => calls[1].text = resume.raw_text
       /\ \A k \in ScoreCalls :
            /\ EncodesAfter(k) <= 1
            /\ EncodesAfter(k) = 1 =>
                 calls[k + 1].text = jobs[calls[k].job].description
       /\ Cardinality(EncodeCalls) <= 1 + Cardinality(ScoreCalls)
  /\ DirectBatch =>
       /\ Cardinality(EncodeCalls) <= 1
       /\ \A k \in EncodeCalls :
            /\ k = 2
            /\ calls[k].text = IF call.fn = "HybridMatcher.match_batch"
                               THEN call.resume.raw_text
                               ELSE call.resume_text

\* a batch over two jobs with texts has returned: the resume text was
\* encoded once and each match encoded its job's text
C14_Witness ==
  /\ InBatch
  /\ pc = "done"
  /\ Len(jobs) >= 2
  /\ Cardinality(ScoreCalls) >= 2
  /\ EncodesAfter(0) = 1
  /\ \A k \in ScoreCalls : EncodesAfter(k) = 1

(***************************************************************************)
(* detect_clearance_from_text called alone.                                *)
(***************************************************************************)
\* the texts are up to MaxWords of these, with one space between them
MaxWords == 2
ClearanceWords ==
  {<<"S", "e", "c", "r", "e", "t">>, <<"T", "S", "/", "S", "C", "I">>, <<"T", "o", "p", " ", "S", "e", "c", "r", "e", "t">>, <<"P", "u", "b", "l", "i", "c", " ", "T", "r", "u", "s", "t">>, <<"T", "S">>,
   <<"s", "e", "c", "r", "e", "t", " ", "s", "e", "r", "v", "i", "c", "e">>, <<"S", "C", "I", " ", "e", "l", "i", "g", "i", "b", "l", "e">>, <<"t", "o", "p">>, <<"M", "B", "I">>, <<"n", "o">>}
ClearanceTexts ==
  {join(<<" ">>, words) : words \in BoundedSeq(ClearanceWords, MaxWords)}

ClearanceInit ==
  /\ LaterIdle
  /\ NormIdle /\ SkillIdle /\ MatchIdle /\ ctor = None

\* detect_clearance_from_text(text)
CallDetectClearance(text) ==
  /\ call = None
  /\ call' = [fn |-> "detect_clearance_from_text", text |-> text,
              returned |-> detect_clearance_from_text(text)]
  /\ UNCHANGED call_only_frame

ClearanceNext == \E text \in ClearanceTexts : CallDetectClearance(text)

SpecClearance == ClearanceInit /\ [][ClearanceNext]_vars

\* the levels that have a pattern matching somewhere in the text
LevelsFound(text) ==
  {level \in ClearanceLevel \ {NONE} : LevelFound(level, str_lower(text))}

\* C15: detect_clearance_from_text returns the highest level that has a
\* pattern matching in the text, wherever the mentions are: TS_SCI for
\* "Secret" followed by "TS/SCI"; NONE when no level has one or the text is
\* empty
C15_HighestLevelWherever ==
  (call # None /\ call.fn = "detect_clearance_from_text") =>
    /\ \A level \in LevelsFound(call.text) : level <= call.returned
    /\ call.returned # NONE => call.returned \in LevelsFound(call.text)
    /\ LevelsFound(call.text) = {} => call.returned = NONE
    /\ call.text = <<>> => call.returned = NONE
    /\ call.text \in {<<"S", "e", "c", "r", "e", "t", " ", "T", "S", "/", "S", "C", "I">>, <<"T", "S", "/", "S", "C", "I", " ", "S", "e", "c", "r", "e", "t">>} =>
         call.returned = TS_SCI

\* "Secret" comes first and "TS/SCI" second: TS_SCI is returned
C15_Witness ==
  /\ call # None
  /\ call.fn = "detect_clearance_from_text"
  /\ call.text = <<"S", "e", "c", "r", "e", "t", " ", "T", "S", "/", "S", "C", "I">>
  /\ SECRET \in LevelsFound(call.text)
  /\ call.returned = TS_SCI

(***************************************************************************)
(* The scores that come from cosine_similarity.                            *)
(***************************************************************************)
\* HybridMatcher.match has returned
HybridMatchReturned ==
  /\ call # None
  /\ call.fn = "HybridMatcher.match"

\* SemanticScorer.score_batch has returned
ScoreBatchReturned ==
  /\ call # None
  /\ call.fn = "SemanticScorer.score_batch"

\* C16: whatever similarity in [-1, 1] the embedding service gives, the
\* semantic score of SemanticScorer.score, the scores of
\* SemanticScorer.score_batch, and the semantic score and the final score of
\* HybridMatcher.match are within [0, 1]
C16_CallersClampSimilarity ==
  /\ semantic_score # None => RatInUnitInterval(semantic_score)
  /\ ScoreBatchReturned =>
       \A n \in DOMAIN call.returned : RatInUnitInterval(call.returned[n])
  /\ HybridMatchReturned =>
       /\ RatInUnitInterval(call.returned.semantic_score)
       /\ RatInUnitInterval(call.returned.final_score)

(***************************************************************************)
(* Two threads, each in one call of JobMatcher.match, on the one           *)
(* EmbeddingService of the process.  A step is what a thread does between  *)
(* two points where the interpreter may switch to the other thread.        *)
(***************************************************************************)
Threads == {1, 2}

\* the (resume, job) pairs of the calls
ThreadPairs ==
  {<<r, job>> \in Resumes \X Jobs :
     /\ r.raw_text \in {<<>>, <<"T", "S", "/", "S", "C", "I">>}
     /\ job.job_id \in {"j1", "j2"}}

\* the pair of the first thread: both its texts are encoded
FirstPair ==
  CHOOSE p \in ThreadPairs : p[1].raw_text # <<>> /\ p[2].job_id = "j1"

\* the stripped texts of the pairs
ThreadTexts ==
  {str_strip(p[1].raw_text) : p \in ThreadPairs}
    \cup {str_strip(p[2].description) : p \in ThreadPairs}

\* what the model gives for each text: two of the many possibilities
ThreadModels ==
  {[text \in ThreadTexts |-> <<3, 4>>],
   [text \in ThreadTexts |-> IF Len(text) > 10 THEN <<1, 0>> ELSE <<-1, 0>>]}

\* the cache after cache_size texts, "1", "2", ..., were encoded
FullCache ==
  [n \in 1..cache_size |-> [text |-> str_of_int(n), embedding |-> <<1, 0>>]]

\* the EmbeddingService objects there may be before the calls: none yet, one
\* that has encoded nothing, one whose cache is full
ServicesBefore == {<<>>, <<<<>>>>, <<FullCache>>}

\* a thread before its call
ThreadStart(pair, scorer) ==
  [pc |-> "start", resume |-> pair[1], job |-> pair[2], scorer |-> scorer,
   service |-> 0, which |-> "", text |-> <<>>, embedding |-> NoEmbedding,
   size |-> 0, oldest_key |-> <<>>, resume_embedding |-> NoEmbedding,
   job_embedding |-> NoEmbedding, now |-> None, result |-> None,
   raised |-> ""]

ThreadsInit ==
  /\ call = None
  /\ NormIdle /\ SkillIdle /\ MatchIdle /\ ctor = None
  /\ \E pair2 \in ThreadPairs \ {FirstPair}, scorer2 \in {1, 2} :
       threads = <<ThreadStart(FirstPair, 1), ThreadStart(pair2, scorer2)>>
  /\ services \in ServicesBefore
  /\ _embedding_service = Len(services)
  /\ scorer_embedding_service \in {<<0, 0>>, <<Len(services), Len(services)>>}
  /\ model_gives \in ThreadModels
  /\ reads = <<{}, {}>>
  /\ writes = <<{}, {}>>
  /\ match_results = {}
  /\ sessions = <<>>

\* the shared variables, as the threads' reads and writes name them
ScorerField(scorer) == [var |-> "SemanticScorer._embedding_service", of |-> scorer]
GlobalService == [var |-> "_embedding_service", of |-> 0]
CacheOf(service) == [var |-> "EmbeddingService._encoding_cache", of |-> service]

\* thread t goes on as local; it has read and written these shared variables
Goes(t, local, read, written) ==
  /\ threads' = [threads EXCEPT ![t] = local]
  /\ reads' = [reads EXCEPT ![t] = @ \cup read]
  /\ writes' = [writes EXCEPT ![t] = @ \cup written]
  /\ UNCHANGED <<model_gives, call, call_frame, store_vars>>

\* dict operations on a cache, which keeps its keys in insertion order
CacheHas(cache, key) == \E n \in DOMAIN cache : cache[n].text = key
CacheGet(cache, key) ==
  cache[CHOOSE n \in DOMAIN cache : cache[n].text = key].embedding
CacheDel(cache, key) == SelectSeq(cache, LAMBDA entry : entry.text # key)
CachePut(cache, key, embedding) ==
  IF CacheHas(cache, key)
  THEN [n \in DOMAIN cache |->
          IF cache[n].text = key
          THEN [text |-> key, embedding |-> embedding] ELSE cache[n]]
  ELSE Append(cache, [text |-> key, embedding |-> embedding])

\* JobMatcher.match once the semantic score is known
MatchResultWith(self, r, job, semantic, now) ==
  LET resume_clearance == detect_clearance_from_text(r.raw_text)
  IN  IF ~meets_clearance_requirement(resume_clearance, job.clearance_level)
      THEN DisqualifiedResult(job, resume_clearance)
      ELSE WithExplanation(
             ScoredResult(self, job, semantic,
                          SkillScorer_score(r.skills, job.required_skills,
                                            job.preferred_skills),
                          ExperienceScorer_score(_estimate_experience_years(r),
                                                 job.min_experience_years,
                                                 r.experience, now)))

\* the JobMatcher of the calls
ThreadMatcher == JobMatcher_init(Rat(400, 1000), Rat(400, 1000), Rat(200, 1000))

\* match up to the semantic scorer: the clearance filter, and the texts
\* SemanticScorer.score looks at first
ThreadBegin(t) ==
  LET local == threads[t]
      passed == meets_clearance_requirement(
                  detect_clearance_from_text(local.resume.raw_text),
                  local.job.clearance_level)
  IN  /\ local.pc = "start"
      /\ Goes(t, [local EXCEPT !.pc = IF ~passed
                                      \/ local.resume.raw_text = <<>>
                                      \/ local.job.description = <<>>
                                      THEN "finish" ELSE "scorer",
                               !.which = "resume",
                               !.text = local.resume.raw_text], {}, {})
      /\ UNCHANGED <<services, _embedding_service, scorer_embedding_service>>

\* SemanticScorer.embedding_service: is self._embedding_service None?
ThreadScorerField(t) ==
  LET local == threads[t]
      field == scorer_embedding_service[local.scorer]
  IN  /\ local.pc = "scorer"
      /\ Goes(t, [local EXCEPT !.pc = IF field = 0 THEN "global" ELSE "check",
                               !.service = field],
              {ScorerField(local.scorer)}, {})
      /\ UNCHANGED <<services, _embedding_service, scorer_embedding_service>>

\* get_embedding_service: is _embedding_service None?
ThreadGlobalNone(t) ==
  LET local == threads[t]
  IN  /\ local.pc = "global"
      /\ Goes(t, [local EXCEPT !.pc = IF _embedding_service = 0
                                      THEN "create" ELSE "return_global"],
              {GlobalService}, {})
      /\ UNCHANGED <<services, _embedding_service, scorer_embedding_service>>

\* get_embedding_service: _embedding_service = EmbeddingService()
ThreadCreate(t) ==
  LET local == threads[t]
  IN  /\ local.pc = "create"
      /\ services' = Append(services, <<>>)
      /\ _embedding_service' = Len(services) + 1
      /\ Goes(t, [local EXCEPT !.pc = "return_global"], {}, {GlobalService})
      /\ UNCHANGED scorer_embedding_service

\* self._embedding_service = get_embedding_service(), with the value of the
\* global at the return
ThreadSetScorerField(t) ==
  LET local == threads[t]
  IN  /\ local.pc = "return_global"
      /\ scorer_embedding_service' =
           [scorer_embedding_service EXCEPT ![local.scorer] = _embedding_service]
      /\ Goes(t, [local EXCEPT !.pc = "return_scorer"],
              {GlobalService}, {ScorerField(local.scorer)})
      /\ UNCHANGED <<services, _embedding_service>>

\* return self._embedding_service
ThreadReturnScorerField(t) ==
  LET local == threads[t]
  IN  /\ local.pc = "return_scorer"
      /\ Goes(t, [local EXCEPT !.pc = "check",
                               !.service = scorer_embedding_service[local.scorer]],
              {ScorerField(local.scorer)}, {})
      /\ UNCHANGED <<services, _embedding_service, scorer_embedding_service>>

\* encode has returned embedding: SemanticScorer.score goes on with the job
\* text, or with the similarity
AfterEncode(local, embedding) ==
  IF local.which = "resume"
  THEN [local EXCEPT !.pc = "scorer", !.which = "job",
                     !.text = local.job.description,
                     !.resume_embedding = embedding]
  ELSE [local EXCEPT !.pc = "finish", !.job_embedding = embedding]

\* encode, lines 91-99: a blank text, and `text in self._encoding_cache`
ThreadCheckCache(t) ==
  LET local == threads[t]
      key == str_strip(local.text)
  IN  /\ local.pc = "check"
      /\ IF key = <<>>
         THEN Goes(t, AfterEncode(local, ZeroVector), {}, {})
         ELSE Goes(t, [local EXCEPT !.pc = IF CacheHas(services[local.service], key)
                                           THEN "hit" ELSE "model",
                                    !.text = key],
                   {CacheOf(local.service)}, {})
      /\ UNCHANGED <<services, _embedding_service, scorer_embedding_service>>

\* encode, line 99: return self._encoding_cache[text]
ThreadCacheHit(t) ==
  LET local == threads[t]
      cache == services[local.service]
  IN  /\ local.pc = "hit"
      /\ IF CacheHas(cache, local.text)
         THEN Goes(t, AfterEncode(local, CacheGet(cache, local.text)),
                   {CacheOf(local.service)}, {})
         ELSE Goes(t, [local EXCEPT !.pc = "raised", !.raised = "KeyError"],
                   {CacheOf(local.service)}, {})
      /\ UNCHANGED <<services, _embedding_service, scorer_embedding_service>>

\* encode, lines 101-103: the model gives the embedding
ThreadModelEncode(t) ==
  LET local == threads[t]
  IN  /\ local.pc = "model"
      /\ Goes(t, [local EXCEPT !.pc = "full",
                               !.embedding = model_gives[local.text]], {}, {})
      /\ UNCHANGED <<services, _embedding_service, scorer_embedding_service>>

\* encode, line 107: len(self._encoding_cache) >= self.cache_size
ThreadCacheFull(t) ==
  LET local == threads[t]
  IN  /\ local.pc = "full"
      /\ Goes(t, [local EXCEPT !.pc = IF Len(services[local.service]) >= cache_size
                                      THEN "iter" ELSE "store"],
              {CacheOf(local.service)}, {})
      /\ UNCHANGED <<services, _embedding_service, scorer_embedding_service>>

\* encode, line 109: iter(self._encoding_cache), which notes the size
ThreadIter(t) ==
  LET local == threads[t]
  IN  /\ local.pc = "iter"
      /\ Goes(t, [local EXCEPT !.pc = "next",
                               !.size = Len(services[local.service])],
              {CacheOf(local.service)}, {})
      /\ UNCHANGED <<services, _embedding_service, scorer_embedding_service>>

\* encode, line 109: oldest_key = next(...), which raises if the size changed
\* or no key is left
ThreadNext(t) ==
  LET local == threads[t]
      cache == services[local.service]
  IN  /\ local.pc = "next"
      /\ Goes(t, IF Len(cache) # local.size
                 THEN [local EXCEPT !.pc = "raised", !.raised = "RuntimeError"]
                 ELSE IF cache = <<>>
                 THEN [local EXCEPT !.pc = "raised", !.raised = "StopIteration"]
                 ELSE [local EXCEPT !.pc = "delete", !.oldest_key = cache[1].text],
              {CacheOf(local.service)}, {})
      /\ UNCHANGED <<services, _embedding_service, scorer_embedding_service>>

\* encode, line 110: del self._encoding_cache[oldest_key]
ThreadDelete(t) ==
  LET local == threads[t]
      cache == services[local.service]
  IN  /\ local.pc = "delete"
      /\ IF CacheHas(cache, local.oldest_key)
         THEN /\ services' = [services EXCEPT ![local.service] =
                                 CacheDel(cache, local.oldest_key)]
              /\ Goes(t, [local EXCEPT !.pc = "store"], {},
                      {CacheOf(local.service)})
         ELSE /\ Goes(t, [local EXCEPT !.pc = "raised", !.raised = "KeyError"],
                      {CacheOf(local.service)}, {})
              /\ UNCHANGED services
      /\ UNCHANGED <<_embedding_service, scorer_embedding_service>>

\* encode, lines 111-113: self._encoding_cache[text] = result; return result
ThreadStore(t) ==
  LET local == threads[t]
  IN  /\ local.pc = "store"
      /\ services' = [services EXCEPT ![local.service] =
                        CachePut(@, local.text, local.embedding)]
      /\ Goes(t, AfterEncode(local, local.embedding), {},
              {CacheOf(local.service)})
      /\ UNCHANGED <<_embedding_service, scorer_embedding_service>>

\* the semantic score of a thread that has its two embeddings, 0.0 for one
\* that never asked for them
ThreadSemantic(local) ==
  IF local.job_embedding = NoEmbedding THEN RatZero
  ELSE clamp_similarity(cosine_similarity(local.resume_embedding,
                                          local.job_embedding))

\* the rest of match: the similarity, the other scorers and the result
ThreadFinish(t, now) ==
  LET local == threads[t]
  IN  /\ local.pc = "finish"
      /\ Goes(t, [local EXCEPT !.pc = "done", !.now = now,
                               !.result = MatchResultWith(ThreadMatcher,
                                                          local.resume, local.job,
                                                          ThreadSemantic(local),
                                                          now)],
              {}, {})
      /\ UNCHANGED <<services, _embedding_service, scorer_embedding_service>>

ThreadStep(t) ==
  \/ ThreadBegin(t)
  \/ ThreadScorerField(t)
  \/ ThreadGlobalNone(t)
  \/ ThreadCreate(t)
  \/ ThreadSetScorerField(t)
  \/ ThreadReturnScorerField(t)
  \/ ThreadCheckCache(t)
  \/ ThreadCacheHit(t)
  \/ ThreadModelEncode(t)
  \/ ThreadCacheFull(t)
  \/ ThreadIter(t)
  \/ ThreadNext(t)
  \/ ThreadDelete(t)
  \/ ThreadStore(t)
  \/ \E now \in Nows : ThreadFinish(t, now)

ThreadsNext == \E t \in Threads : ThreadStep(t)

SpecThreads == ThreadsInit /\ [][ThreadsNext]_vars

\* the result of the pair of thread t when its call runs alone, at the same
\* time of day
ResultAlone(t) ==
  LET local == threads[t]
      r == local.resume
      job == local.job
  IN  MatchResultWith(ThreadMatcher, r, job,
                      IF r.raw_text = <<>> \/ job.description = <<>>
                      THEN RatZero
                      ELSE clamp_similarity(
                             cosine_similarity(
                               model_gives[str_strip(r.raw_text)],
                               model_gives[str_strip(job.description)])),
                      local.now)

\* C17: two concurrent match calls for different pairs share no mutable
\* state (nothing one call writes is read or written by the other), so
\* neither raises and each returns the result it returns alone
C17_ConcurrentMatchesShareNothing ==
  threads # <<>> =>
    /\ \A t \in Threads, u \in Threads :
         t # u => writes[t] \cap (reads[u] \cup writes[u]) = {}
    /\ \A t \in Threads : threads[t].pc # "raised"
    /\ \A t \in Threads :
         threads[t].pc = "done" => threads[t].result = ResultAlone(t)


(***************************************************************************)
(* resume_parser/parser.py: ResumeParser.parse and parse_text.  The        *)
(* extractors are taken by what they may do: return a value or raise.      *)
(***************************************************************************)
\* ContactInfo(), and a ContactInfo with an email
ContactInfo_default ==
  [email |-> NoneStr, phone |-> NoneStr, location |-> NoneStr,
   linkedin |-> NoneStr, name |-> NoneStr]

\* Resume(raw_text=..., file_path=..., file_type=...): the other fields have
\* their defaults
Resume_init(raw_text, file_path, file_type) ==
  [raw_text |-> raw_text, contact |-> ContactInfo_default, skills |-> <<>>,
   experience |-> <<>>, education |-> <<>>, sections |-> <<>>,
   file_path |-> file_path, file_type |-> file_type, parse_errors |-> <<>>]

\* what an extractor does: it returns a value or raises an exception
Returns(value) == [threw |-> FALSE, value |-> value]
Raises(e) == [threw |-> TRUE, e |-> e]

\* str(e) of the exceptions followed
ExceptionTexts == {<<>>, <<"b", "o", "o", "m">>}

\* a ParsedSection
ParsedSection(name, content) ==
  [name |-> name, content |-> content, start_index |-> 0,
   end_index |-> Len(content)]

\* what each extractor may do
SectionOutcomes ==
  {Raises(e) : e \in ExceptionTexts}
    \cup {Returns(<<>>),
          Returns(("skills" :> ParsedSection("skills", <<"P", "y", "t", "h", "o", "n">>))
                  @@ ("contact" :> ParsedSection("contact", <<"a", "@", "b", ".", "c">>)))}
ContactOutcomes ==
  {Raises(e) : e \in ExceptionTexts}
    \cup {Returns(ContactInfo_default),
          Returns([ContactInfo_default EXCEPT !.email = <<"a", "@", "b", ".", "c">>])}
SkillOutcomes ==
  {Raises(e) : e \in ExceptionTexts} \cup {Returns(<<>>), Returns(<<s_Python>>)}
ExperienceOutcomes ==
  {Raises(e) : e \in ExceptionTexts}
    \cup {Returns(<<>>),
          Returns(<<[company |-> <<"A", "c", "m", "e">>, role |-> <<"D", "e", "v">>,
                     start_date |-> <<"2", "0", "1", "8", "-", "0", "1">>, end_date |-> NoneStr,
                     description |-> NoneStr, location |-> NoneStr,
                     is_current |-> TRUE]>>)}
EducationOutcomes ==
  {Raises(e) : e \in ExceptionTexts}
    \cup {Returns(<<>>),
          Returns(<<[institution |-> <<"M", "I", "T">>, degree |-> <<"B", "S">>,
                     field_of_study |-> NoneStr, graduation_date |-> NoneStr,
                     gpa |-> NoneStr, honors |-> NoneStr]>>)}

\* the stages of _parse_content, by the first word of their messages
Stages == <<<<"S", "e", "c", "t", "i", "o", "n">>, <<"C", "o", "n", "t", "a", "c", "t">>, <<"S", "k", "i", "l", "l">>, <<"E", "x", "p", "e", "r", "i", "e", "n", "c", "e">>, <<"E", "d", "u", "c", "a", "t", "i", "o", "n">>>>

\* resume.parse_errors.append(f"... extraction failed: {e}") with two
\* messages in place of one
stage_failed_twice(r, stage, e) ==
  [r EXCEPT !.parse_errors =
     @ \o <<stage \o <<" ", "e", "x", "t", "r", "a", "c", "t", "i", "o", "n", " ", "f", "a", "i", "l", "e", "d", ":", " ">> \o e,
            stage \o <<" ", "e", "x", "t", "r", "a", "c", "t", "i", "o", "n", " ", "f", "a", "i", "l", "e", "d", ":", " ">> \o e>>]

\* the except branch of a stage:
\* resume.parse_errors.append(f"... extraction failed: {e}")
stage_failed(r, stage, e) ==
  [r EXCEPT !.parse_errors =
     Append(@, stage \o <<" ", "e", "x", "t", "r", "a", "c", "t", "i", "o", "n", " ", "f", "a", "i", "l", "e", "d", ":", " ">> \o e)]

\* the try branch of a stage: resume.<field> = <the value returned>
stage_returned(r, field, value) ==
  CASE field = "sections" -> [r EXCEPT !.sections = value]
    [] field = "contact" -> [r EXCEPT !.contact = value]
    [] field = "skills" -> [r EXCEPT !.skills = value]
    [] field = "experience" -> [r EXCEPT !.experience = value]
    [] field = "education" -> [r EXCEPT !.education = value]

\* resume.sections.get(name, {}).content if name in resume.sections else None
section_content(r, name) ==
  IF name \in DOMAIN r.sections THEN r.sections[name].content
  ELSE NoneStr

\* Path(file_path).suffix: from the last dot of the last component, empty
\* when there is no dot after its first character
path_suffix(path) ==
  LET slashes == {n \in DOMAIN path : path[n] = "/"}
      start == IF slashes = {} THEN 1
               ELSE (CHOOSE n \in slashes : \A m \in slashes : m <= n) + 1
      dots == {n \in start + 1..Len(path) : path[n] = "."}
      last == CHOOSE n \in dots : \A m \in dots : m <= n
  IN  IF dots = {} \/ last = Len(path) THEN <<>>
      ELSE SubSeq(path, last, Len(path))

SUPPORTED_EXTENSIONS == {<<".", "p", "d", "f">>, <<".", "d", "o", "c", "x">>}

\* the files given to parse: whether the path exists, and what the extractor
\* of its type does with it
FilePaths == {<<"r", ".", "p", "d", "f">>, <<"d", "/", "r", ".", "P", "D", "F">>, <<"a", ".", "b", "/", "r", ".", "d", "o", "c", "x">>, <<"r", ".", "t", "x", "t">>, <<"r">>, <<".", "p", "d", "f">>}
ExtractOutcomes ==
  {Raises(e) : e \in ExceptionTexts} \cup {Returns(<<>>), Returns(<<"J", "o", " ", "a", "@", "b", ".", "c">>)}

\* parse with the extraction outside any try
ResumeParser_parse_uncaught(file_path, exists, extracted) ==
  LET extension == str_lower(path_suffix(file_path))
      created == Resume_init(<<>>, file_path, Tail(extension))
  IN  IF ~exists
      THEN [pc |-> "raised", raised |-> "FileNotFoundError", resume |-> None]
      ELSE IF extension \notin SUPPORTED_EXTENSIONS
      THEN [pc |-> "raised", raised |-> "ValueError", resume |-> None]
      ELSE IF extracted.threw
      THEN [pc |-> "raised", raised |-> "RuntimeError", resume |-> None]
      ELSE IF extracted.value = <<>>
      THEN [pc |-> "returned", raised |-> "",
            resume |-> [created EXCEPT !.parse_errors =
                          <<<<"N", "o", " ", "t", "e", "x", "t", " ", "c", "o", "u", "l", "d", " ", "b", "e", " ", "e", "x", "t", "r", "a", "c", "t", "e", "d", " ", "f", "r", "o", "m", " ", "t", "h", "e", " ", "f", "i", "l", "e">>>>]]
      ELSE [pc |-> "sections", raised |-> "",
            resume |-> [created EXCEPT !.raw_text = extracted.value]]

\* ResumeParser.parse up to _parse_content: what is raised, or the resume
\* and whether it is returned at once
ResumeParser_parse(file_path, exists, extracted) ==
  LET extension == str_lower(path_suffix(file_path))
      created == Resume_init(<<>>, file_path, Tail(extension))
  IN  IF ~exists
      THEN [pc |-> "raised", raised |-> "FileNotFoundError", resume |-> None]
      ELSE IF extension \notin SUPPORTED_EXTENSIONS
      THEN [pc |-> "raised", raised |-> "ValueError", resume |-> None]
      ELSE IF extracted.threw
      THEN [pc |-> "returned", raised |-> "",
            resume |-> [created EXCEPT !.parse_errors =
                          <<<<"F", "a", "i", "l", "e", "d", " ", "t", "o", " ", "e", "x", "t", "r", "a", "c", "t", " ", "t", "e", "x", "t", " ", "f", "r", "o", "m", " ", "f", "i", "l", "e", ":", " ">>
                            \o extracted.e>>]]
      ELSE IF extracted.value = <<>>
      THEN [pc |-> "returned", raised |-> "",
            resume |-> [created EXCEPT !.parse_errors =
                          <<<<"N", "o", " ", "t", "e", "x", "t", " ", "c", "o", "u", "l", "d", " ", "b", "e", " ", "e", "x", "t", "r", "a", "c", "t", "e", "d", " ", "f", "r", "o", "m", " ", "t", "h", "e", " ", "f", "i", "l", "e">>>>]]
      ELSE [pc |-> "sections", raised |-> "",
            resume |-> [created EXCEPT !.raw_text = extracted.value]]

ParserInit ==
  /\ LaterIdle
  /\ NormIdle /\ SkillIdle /\ MatchIdle /\ ctor = None

\* parser.parse_text(text, source)
ParseText(text, source) ==
  /\ call = None
  /\ call' = [fn |-> "ResumeParser.parse_text", text |-> text,
              pc |-> "sections", raised |-> "",
              resume |-> Resume_init(text, NoneStr, source),
              ran |-> <<>>, threw |-> {}]
  /\ UNCHANGED call_only_frame

\* parser.parse(file_path)
Parse(file_path, exists, extracted) ==
  /\ call = None
  /\ call' = [fn |-> "ResumeParser.parse", file_path |-> file_path,
              exists |-> exists, extracted |-> extracted,
              ran |-> <<>>, threw |-> {}]
             @@ ResumeParser_parse(file_path, exists, extracted)
  /\ UNCHANGED call_only_frame

\* one stage of _parse_content: the extractor was given the text and the
\* content of its section; the field is set if it returned
Stage(pc_now, pc_then, stage, section, field, outcome) ==
  /\ call # None
  /\ "pc" \in DOMAIN call
  /\ call.pc = pc_now
  /\ call' = [call EXCEPT
       !.pc = pc_then,
       !.ran = Append(@, [stage |-> stage,
                          section |-> IF section = "" THEN NoneStr
                                      ELSE section_content(call.resume, section)]),
       !.threw = IF outcome.threw THEN @ \cup {stage} ELSE @,
       !.resume = IF outcome.threw
                  THEN stage_failed(@, stage, outcome.e)
                  ELSE stage_returned(@, field, outcome.value)]
  /\ UNCHANGED call_only_frame

\* _parse_content, lines 152-157
ExtractSections(outcome) ==
  Stage("sections", "contact", Stages[1], "", "sections", outcome)

\* _parse_content, lines 159-189
ExtractContact(outcome) ==
  Stage("contact", "skills", Stages[2], "contact", "contact", outcome)

\* _parse_content, lines 191-197
ExtractSkills(outcome) ==
  Stage("skills", "experience", Stages[3], "skills", "skills", outcome)

\* _parse_content, lines 199-207
ExtractExperience(outcome) ==
  Stage("experience", "education", Stages[4], "experience", "experience", outcome)

\* _parse_content, lines 209-219: the last stage, and the return
ExtractEducation(outcome) ==
  Stage("education", "returned", Stages[5], "education", "education", outcome)

ParserNext ==
  \/ \E text \in {<<>>, <<"J", "o", " ", "a", "@", "b", ".", "c">>}, source \in {<<"t", "e", "x", "t">>} : ParseText(text, source)
  \/ \E file_path \in FilePaths, exists \in BOOLEAN,
        extracted \in ExtractOutcomes : Parse(file_path, exists, extracted)
  \/ \E outcome \in SectionOutcomes : ExtractSections(outcome)
  \/ \E outcome \in ContactOutcomes : ExtractContact(outcome)
  \/ \E outcome \in SkillOutcomes : ExtractSkills(outcome)
  \/ \E outcome \in ExperienceOutcomes : ExtractExperience(outcome)
  \/ \E outcome \in EducationOutcomes : ExtractEducation(outcome)

SpecParser == ParserInit /\ [][ParserNext]_vars

\* the messages of a stage in the error list
StageMessages(r, stage) ==
  {n \in DOMAIN r.parse_errors :
     /\ Len(r.parse_errors[n]) >= Len(stage)
     /\ SubSeq(r.parse_errors[n], 1, Len(stage)) = stage}

\* the field a stage sets, and its default
StageField(r, stage) ==
  CASE stage = Stages[1] -> r.sections
    [] stage = Stages[2] -> r.contact
    [] stage = Stages[3] -> r.skills
    [] stage = Stages[4] -> r.experience
    [] stage = Stages[5] -> r.education
StageDefault(stage) ==
  IF stage = Stages[2] THEN ContactInfo_default ELSE <<>>

\* parse_text was called
InParseText == call # None /\ call.fn = "ResumeParser.parse_text"

\* C18: parse_text never raises and returns the resume; a stage that throws
\* leaves exactly one message in parse_errors and its field at the default,
\* and the stages after it still run
C18_StageFailuresAreRecorded ==
  InParseText =>
    /\ call.raised = ""
    /\ Len(call.resume.parse_errors) = Cardinality(call.threw)
    /\ \A n \in DOMAIN call.ran :
         LET stage == call.ran[n].stage
         IN  /\ stage = Stages[n]
             /\ Cardinality(StageMessages(call.resume, stage))
                  = IF stage \in call.threw THEN 1 ELSE 0
             /\ stage \in call.threw =>
                  StageField(call.resume, stage) = StageDefault(stage)
    /\ call.pc = "returned" => Len(call.ran) = Len(Stages)

\* parse_text has returned after the section and the skill stages threw and
\* the three others ran
C18_Witness ==
  /\ InParseText
  /\ call.pc = "returned"
  /\ call.threw = {Stages[1], Stages[3]}
  /\ Len(call.resume.parse_errors) = 2
  /\ call.resume.contact # ContactInfo_default
  /\ call.resume.education # <<>>

\* parse was called
InParse == call # None /\ call.fn = "ResumeParser.parse"

\* C19: parse raises in two cases only, FileNotFoundError for a path that
\* does not exist and ValueError for an unsupported type; a failure to
\* extract the text, an empty text and the failures of the stages are
\* recorded in parse_errors of the resume returned
C19_ParseRaisesInTwoCases ==
  InParse =>
    LET unsupported ==
          str_lower(path_suffix(call.file_path)) \notin SUPPORTED_EXTENSIONS
    IN  /\ call.raised \in {"", "FileNotFoundError", "ValueError"}
        /\ call.raised = "FileNotFoundError" <=> ~call.exists
        /\ call.raised = "ValueError" <=> (call.exists /\ unsupported)
        /\ (call.exists /\ ~unsupported) =>
             /\ call.raised = ""
             /\ call.extracted.threw =>
                  /\ call.pc = "returned"
                  /\ call.resume.parse_errors
                       = <<<<"F", "a", "i", "l", "e", "d", " ", "t", "o", " ", "e", "x", "t", "r", "a", "c", "t", " ", "t", "e", "x", "t", " ", "f", "r", "o", "m", " ", "f", "i", "l", "e", ":", " ">>
                           \o call.extracted.e>>
             /\ (~call.extracted.threw /\ call.extracted.value = <<>>) =>
                  /\ call.pc = "returned"
                  /\ call.resume.parse_errors
                       = <<<<"N", "o", " ", "t", "e", "x", "t", " ", "c", "o", "u", "l", "d", " ", "b", "e", " ", "e", "x", "t", "r", "a", "c", "t", "e", "d", " ", "f", "r", "o", "m", " ", "t", "h", "e", " ", "f", "i", "l", "e">>>>
             /\ Len(call.resume.parse_errors) >= Cardinality(call.threw)

\* parse has returned a resume whose text could not be extracted
C19_Witness ==
  /\ InParse
  /\ call.exists
  /\ call.extracted.threw
  /\ call.pc = "returned"
  /\ call.raised = ""
  /\ Len(call.resume.parse_errors) = 1

(***************************************************************************)
(* Resume.to_dict and _build_resume_from_json of api/routes/match.py, one  *)
(* after the other.  A dict is a record with its keys as fields.           *)
(***************************************************************************)
\* Resume.to_dict
Resume_to_dict(self) ==
  [raw_text |-> self.raw_text,
   contact |-> [email |-> self.contact.email, phone |-> self.contact.phone,
                location |-> self.contact.location,
                linkedin |-> self.contact.linkedin, name |-> self.contact.name],
   skills |-> self.skills,
   experience |-> [n \in DOMAIN self.experience |->
                     LET exp == self.experience[n]
                     IN  [company |-> exp.company, role |-> exp.role,
                          start_date |-> exp.start_date,
                          end_date |-> exp.end_date,
                          description |-> exp.description,
                          location |-> exp.location,
                          is_current |-> exp.is_current]],
   education |-> [n \in DOMAIN self.education |->
                    LET edu == self.education[n]
                    IN  [institution |-> edu.institution, degree |-> edu.degree,
                         field_of_study |-> edu.field_of_study,
                         graduation_date |-> edu.graduation_date,
                         gpa |-> edu.gpa, honors |-> edu.honors]],
   sections |-> [name \in DOMAIN self.sections |->
                   LET sec == self.sections[name]
                   IN  [name |-> sec.name, content |-> sec.content,
                        start_index |-> sec.start_index,
                        end_index |-> sec.end_index]],
   file_path |-> self.file_path,
   file_type |-> self.file_type,
   parse_errors |-> self.parse_errors]

\* _build_resume_from_json: the keys it reads, and the defaults of
\* WorkExperience, Education and Resume for the fields it does not give
_build_resume_from_json(resume_json) ==
  [raw_text |-> resume_json.raw_text,
   contact |-> [name |-> resume_json.contact.name,
                email |-> resume_json.contact.email,
                phone |-> resume_json.contact.phone,
                location |-> resume_json.contact.location,
                linkedin |-> resume_json.contact.linkedin],
   skills |-> resume_json.skills,
   experience |-> [n \in DOMAIN resume_json.experience |->
                     LET exp_data == resume_json.experience[n]
                     IN  [company |-> exp_data.company, role |-> exp_data.role,
                          start_date |-> exp_data.start_date,
                          end_date |-> exp_data.end_date,
                          description |-> exp_data.description,
                          location |-> NoneStr,
                          is_current |-> exp_data.is_current]],
   education |-> [n \in DOMAIN resume_json.education |->
                    LET edu_data == resume_json.education[n]
                    IN  [institution |-> edu_data.institution,
                         degree |-> edu_data.degree,
                         field_of_study |-> edu_data.field_of_study,
                         graduation_date |-> edu_data.graduation_date,
                         gpa |-> edu_data.gpa, honors |-> NoneStr]],
   sections |-> <<>>,
   file_path |-> NoneStr,
   file_type |-> NoneStr,
   parse_errors |-> <<>>]

\* parsed resumes: each part as the parser may leave it
ParsedContacts ==
  {ContactInfo_default,
   [ContactInfo_default EXCEPT !.email = <<"a", "@", "b", ".", "c">>, !.name = <<"J", "o">>]}
ParsedSkills == {<<>>, <<s_Python, s_JS>>}
ParsedExperience ==
  {<<>>,
   <<[company |-> <<"A", "c", "m", "e">>, role |-> <<"D", "e", "v">>, start_date |-> <<"2", "0", "1", "8", "-", "0", "1">>,
      end_date |-> <<"2", "0", "2", "0", "-", "0", "1">>, description |-> NoneStr, location |-> NoneStr,
      is_current |-> FALSE]>>,
   <<[company |-> <<"A", "c", "m", "e">>, role |-> <<"D", "e", "v">>, start_date |-> <<"2", "0", "2", "0", "-", "0", "2">>,
      end_date |-> NoneStr, description |-> <<"A", "P", "I", "s">>, location |-> <<"R", "e", "s", "t", "o", "n", ",", " ", "V", "A">>,
      is_current |-> TRUE]>>}
ParsedEducation ==
  {<<>>,
   <<[institution |-> <<"M", "I", "T">>, degree |-> <<"B", "S">>, field_of_study |-> <<"C", "S">>,
      graduation_date |-> <<"2", "0", "1", "7">>, gpa |-> NoneStr, honors |-> NoneStr]>>,
   <<[institution |-> <<"M", "I", "T">>, degree |-> <<"B", "S">>, field_of_study |-> NoneStr,
      graduation_date |-> NoneStr, gpa |-> <<"3", ".", "9">>,
      honors |-> <<"c", "u", "m", " ", "l", "a", "u", "d", "e">>]>>}
ParsedSections ==
  {<<>>, ("skills" :> ParsedSection("skills", <<"P", "y", "t", "h", "o", "n">>))}
ParsedErrors == {<<>>, <<<<"S", "k", "i", "l", "l", " ", "e", "x", "t", "r", "a", "c", "t", "i", "o", "n", " ", "f", "a", "i", "l", "e", "d", ":", " ", "b", "o", "o", "m">>>>}
ParsedResumes ==
  {[raw_text |-> <<"J", "o", " ", "a", "@", "b", ".", "c">>, contact |-> contact, skills |-> skills,
    experience |-> experience, education |-> education,
    sections |-> sections, file_path |-> NoneStr, file_type |-> <<"t", "e", "x", "t">>,
    parse_errors |-> parse_errors] :
     contact \in ParsedContacts, skills \in ParsedSkills,
     experience \in ParsedExperience, education \in ParsedEducation,
     sections \in ParsedSections, parse_errors \in ParsedErrors}

RoundTripInit ==
  /\ LaterIdle
  /\ NormIdle /\ SkillIdle /\ MatchIdle /\ ctor = None

\* _build_resume_from_json(resume.to_dict())
RoundTrip(r) ==
  /\ call = None
  /\ call' = [fn |-> "_build_resume_from_json", resume |-> r,
              resume_json |-> Resume_to_dict(r),
              returned |-> _build_resume_from_json(Resume_to_dict(r))]
  /\ UNCHANGED call_only_frame

RoundTripNext == \E r \in ParsedResumes : RoundTrip(r)

SpecRoundTrip == RoundTripInit /\ [][RoundTripNext]_vars

\* C20: the resume rebuilt from the dictionary of a parsed resume has the
\* contact, the skills, the work experience (location and is_current
\* included), the education (honors included), the sections and the parse
\* errors of the original
C20_RoundTripKeepsEveryField ==
  (call # None /\ call.fn = "_build_resume_from_json") =>
    /\ call.returned.contact = call.resume.contact
    /\ call.returned.skills = call.resume.skills
    /\ call.returned.experience = call.resume.experience
    /\ call.returned.education = call.resume.education
    /\ call.returned.sections = call.resume.sections
    /\ call.returned.parse_errors = call.resume.parse_errors
(***************************************************************************)
(* resume_parser/utils/text_utils.py (is_likely_header) and                *)
(* resume_parser/extractors/section_extractor.py.  A dict is the sequence  *)
(* of its values in the order of its keys, which is the order in which the *)
(* keys were first inserted; the key of a ParsedSection is its name.  None *)
(* for a section name is NoName.                                           *)
(***************************************************************************)
\* the characters U+2013 and U+2014, each one character of a string
en_dash == "en dash"
em_dash == "em dash"

\* text.split(sep) for a separator of one character
RECURSIVE str_split(_, _)
str_split(s, sep) ==
  LET k == find_first(s, {sep})
  IN  IF k = 0 THEN <<s>>
      ELSE <<SubSeq(s, 1, k - 1)>> \o str_split(SubSeq(s, k + 1, Len(s)), sep)

\* text.split(): the words between runs of whitespace
RECURSIVE str_words(_)
str_words(s) ==
  LET t == str_lstrip(s)
      k == find_first(t, Whitespace)
  IN  IF t = <<>> THEN <<>>
      ELSE IF k = 0 THEN <<t>>
      ELSE <<SubSeq(t, 1, k - 1)>> \o str_words(SubSeq(t, k + 1, Len(t)))

UpperLetters == DOMAIN UpperToLower
LowerLetters == {UpperToLower[c] : c \in DOMAIN UpperToLower}

\* str.isupper(): a cased character, and no cased character in lower case
str_isupper(s) ==
  /\ \E k \in DOMAIN s : s[k] \in UpperLetters
  /\ \A k \in DOMAIN s : s[k] \notin LowerLetters

\* str.endswith for endings of one character
str_endswith(s, chars) == s # <<>> /\ s[Len(s)] \in chars

\* is_likely_header(text)
is_likely_header(text) ==
  IF text = <<>> THEN FALSE
  ELSE LET t == str_strip(text)
           words == str_words(t)
       IN  IF Len(t) > 50 THEN FALSE
           ELSE IF str_endswith(t, {".", "!", "?"}) THEN FALSE
           ELSE IF str_isupper(t) \/ str_endswith(t, {":"}) THEN TRUE
           ELSE /\ Len(words) <= 4
                /\ \A n \in DOMAIN words : words[n][1] \in UpperLetters

\* SECTION_PATTERNS, in the order of the dict; the patterns are compiled
\* with re.IGNORECASE and are matched against the line in lower case
SECTION_PATTERNS ==
  <<[name |-> "contact",
     patterns |->
     <<re_cat(<<re_lit(<<"c", "o", "n", "t", "a", "c", "t">>), re_ss, re_opt(re_alt(<<re_lit(<<"i", "n", "f", "o">>), re_lit(<<"i", "n", "f", "o", "r", "m", "a", "t", "i", "o", "n">>), re_lit(<<"d", "e", "t", "a", "i", "l", "s">>)>>))>>),
       re_cat(<<re_lit(<<"p", "e", "r", "s", "o", "n", "a", "l">>), re_ss, re_opt(re_alt(<<re_lit(<<"i", "n", "f", "o">>), re_lit(<<"i", "n", "f", "o", "r", "m", "a", "t", "i", "o", "n">>), re_lit(<<"d", "e", "t", "a", "i", "l", "s">>)>>))>>),
       re_cat(<<re_lit(<<"a", "b", "o", "u", "t">>), re_ss, re_lit(<<"m", "e">>)>>)>>]>>
  \o
  <<[name |-> "summary",
     patterns |->
     <<re_cat(<<re_opt(re_cat(<<re_lit(<<"p", "r", "o", "f", "e", "s", "s", "i", "o", "n", "a", "l">>), re_sp>>)), re_alt(<<re_lit(<<"s", "u", "m", "m", "a", "r", "y">>), re_lit(<<"p", "r", "o", "f", "i", "l", "e">>), re_lit(<<"o", "b", "j", "e", "c", "t", "i", "v", "e">>)>>)>>),
       re_cat(<<re_lit(<<"c", "a", "r", "e", "e", "r">>), re_ss, re_alt(<<re_lit(<<"s", "u", "m", "m", "a", "r", "y">>), re_lit(<<"o", "b", "j", "e", "c", "t", "i", "v", "e">>), re_lit(<<"p", "r", "o", "f", "i", "l", "e">>)>>)>>),
       re_cat(<<re_lit(<<"e", "x", "e", "c", "u", "t", "i", "v", "e">>), re_sp, re_lit(<<"s", "u", "m", "m", "a", "r", "y">>)>>),
       re_lit(<<"o", "v", "e", "r", "v", "i", "e", "w">>)>>]>>
  \o
  <<[name |-> "experience",
     patterns |->
     <<re_cat(<<re_alt(<<re_lit(<<"w", "o", "r", "k">>), re_lit(<<"p", "r", "o", "f", "e", "s", "s", "i", "o", "n", "a", "l">>), re_lit(<<"e", "m", "p", "l", "o", "y", "m", "e", "n", "t">>)>>), re_ss, re_alt(<<re_lit(<<"e", "x", "p", "e", "r", "i", "e", "n", "c", "e">>), re_lit(<<"h", "i", "s", "t", "o", "r", "y">>)>>)>>),
       re_lit(<<"e", "x", "p", "e", "r", "i", "e", "n", "c", "e">>),
       re_cat(<<re_lit(<<"w", "o", "r", "k">>), re_sp, re_lit(<<"h", "i", "s", "t", "o", "r", "y">>)>>),
       re_cat(<<re_lit(<<"c", "a", "r", "e", "e", "r">>), re_sp, re_lit(<<"h", "i", "s", "t", "o", "r", "y">>)>>),
       re_cat(<<re_lit(<<"p", "r", "o", "f", "e", "s", "s", "i", "o", "n", "a", "l">>), re_sp, re_lit(<<"b", "a", "c", "k", "g", "r", "o", "u", "n", "d">>)>>)>>]>>
  \o
  <<[name |-> "education",
     patterns |->
     <<re_cat(<<re_lit(<<"e", "d", "u", "c", "a", "t", "i", "o", "n">>), re_opt(re_lit(<<"a", "l">>)), re_ss, re_opt(re_alt(<<re_lit(<<"b", "a", "c", "k", "g", "r", "o", "u", "n", "d">>), re_lit(<<"h", "i", "s", "t", "o", "r", "y">>), re_lit(<<"q", "u", "a", "l", "i", "f", "i", "c", "a", "t", "i", "o", "n", "s">>)>>))>>),
       re_cat(<<re_lit(<<"a", "c", "a", "d", "e", "m", "i", "c">>), re_ss, re_opt(re_alt(<<re_lit(<<"b", "a", "c", "k", "g", "r", "o", "u", "n", "d">>), re_lit(<<"h", "i", "s", "t", "o", "r", "y">>), re_lit(<<"q", "u", "a", "l", "i", "f", "i", "c", "a", "t", "i", "o", "n", "s">>)>>))>>),
       re_cat(<<re_lit(<<"d", "e", "g", "r", "e", "e">>), re_opt(re_lit(<<"s">>)), re_ss, re_opt(re_alt(<<re_lit(<<"&">>), re_lit(<<"a", "n", "d">>)>>)), re_ss, re_lit(<<"c", "e", "r", "t", "i", "f", "i", "c", "a", "t", "i", "o", "n">>), re_opt(re_lit(<<"s">>))>>)>>]>>
  \o
  <<[name |-> "skills",
     patterns |->
     <<re_cat(<<re_opt(re_cat(<<re_lit(<<"t", "e", "c", "h", "n", "i", "c", "a", "l">>), re_sp>>)), re_lit(<<"s", "k", "i", "l", "l">>), re_opt(re_lit(<<"s">>)), re_opt(re_cat(<<re_ss, re_alt(<<re_lit(<<"&">>), re_lit(<<"a", "n", "d">>)>>), re_ss, re_lit(<<"a", "b", "i", "l", "i", "t", "i", "e", "s">>)>>))>>),
       re_cat(<<re_lit(<<"c", "o", "r", "e">>), re_sp, re_lit(<<"c", "o", "m", "p", "e", "t", "e", "n", "c", "i", "e", "s">>)>>),
       re_lit(<<"c", "o", "m", "p", "e", "t", "e", "n", "c", "i", "e", "s">>),
       re_cat(<<re_lit(<<"t", "e", "c", "h", "n", "i", "c", "a", "l">>), re_sp, re_alt(<<re_lit(<<"p", "r", "o", "f", "i", "c", "i", "e", "n", "c", "i", "e", "s">>), re_lit(<<"e", "x", "p", "e", "r", "t", "i", "s", "e">>)>>)>>),
       re_cat(<<re_lit(<<"a", "r", "e", "a">>), re_opt(re_lit(<<"s">>)), re_sp, re_lit(<<"o", "f">>), re_sp, re_lit(<<"e", "x", "p", "e", "r", "t", "i", "s", "e">>)>>),
       re_lit(<<"p", "r", "o", "f", "i", "c", "i", "e", "n", "c", "i", "e", "s">>)>>]>>
  \o
  <<[name |-> "certifications",
     patterns |->
     <<re_cat(<<re_lit(<<"c", "e", "r", "t", "i", "f", "i", "c", "a", "t", "i", "o", "n">>), re_opt(re_lit(<<"s">>)), re_ss, re_opt(re_alt(<<re_lit(<<"&">>), re_lit(<<"a", "n", "d">>)>>)), re_ss, re_opt(re_cat(<<re_lit(<<"l", "i", "c", "e", "n", "s", "e">>), re_opt(re_lit(<<"s">>))>>))>>),
       re_cat(<<re_lit(<<"l", "i", "c", "e", "n", "s", "e">>), re_opt(re_lit(<<"s">>)), re_ss, re_opt(re_alt(<<re_lit(<<"&">>), re_lit(<<"a", "n", "d">>)>>)), re_ss, re_lit(<<"c", "e", "r", "t", "i", "f", "i", "c", "a", "t", "i", "o", "n">>), re_opt(re_lit(<<"s">>))>>),
       re_cat(<<re_lit(<<"p", "r", "o", "f", "e", "s", "s", "i", "o", "n", "a", "l">>), re_sp, re_lit(<<"c", "e", "r", "t", "i", "f", "i", "c", "a", "t", "i", "o", "n">>), re_opt(re_lit(<<"s">>))>>),
       re_lit(<<"c", "r", "e", "d", "e", "n", "t", "i", "a", "l", "s">>)>>]>>
  \o
  <<[name |-> "projects",
     patterns |->
     <<re_cat(<<re_opt(re_cat(<<re_lit(<<"k", "e", "y">>), re_sp>>)), re_lit(<<"p", "r", "o", "j", "e", "c", "t">>), re_opt(re_lit(<<"s">>))>>),
       re_cat(<<re_lit(<<"p", "e", "r", "s", "o", "n", "a", "l">>), re_sp, re_lit(<<"p", "r", "o", "j", "e", "c", "t">>), re_opt(re_lit(<<"s">>))>>),
       re_cat(<<re_lit(<<"p", "r", "o", "f", "e", "s", "s", "i", "o", "n", "a", "l">>), re_sp, re_lit(<<"p", "r", "o", "j", "e", "c", "t">>), re_opt(re_lit(<<"s">>))>>),
       re_lit(<<"p", "o", "r", "t", "f", "o", "l", "i", "o">>)>>]>>
  \o
  <<[name |-> "publications",
     patterns |->
     <<re_cat(<<re_lit(<<"p", "u", "b", "l", "i", "c", "a", "t", "i", "o", "n">>), re_opt(re_lit(<<"s">>))>>),
       re_cat(<<re_lit(<<"p", "a", "p", "e", "r">>), re_opt(re_lit(<<"s">>))>>),
       re_cat(<<re_lit(<<"r", "e", "s", "e", "a", "r", "c", "h">>), re_ss, re_opt(re_cat(<<re_lit(<<"p">>), re_alt(<<re_cat(<<re_lit(<<"a", "p", "e", "r">>), re_opt(re_lit(<<"s">>))>>), re_cat(<<re_lit(<<"u", "b", "l", "i", "c", "a", "t", "i", "o", "n">>), re_opt(re_lit(<<"s">>))>>)>>)>>))>>)>>]>>
  \o
  <<[name |-> "awards",
     patterns |->
     <<re_cat(<<re_lit(<<"a", "w", "a", "r", "d">>), re_opt(re_lit(<<"s">>)), re_ss, re_opt(re_alt(<<re_lit(<<"&">>), re_lit(<<"a", "n", "d">>)>>)), re_ss, re_opt(re_alt(<<re_cat(<<re_lit(<<"h", "o", "n", "o", "r">>), re_opt(re_lit(<<"s">>))>>), re_cat(<<re_lit(<<"a", "c", "h", "i", "e", "v", "e", "m", "e", "n", "t">>), re_opt(re_lit(<<"s">>))>>)>>))>>),
       re_cat(<<re_lit(<<"h", "o", "n", "o", "r">>), re_opt(re_lit(<<"s">>)), re_ss, re_opt(re_alt(<<re_lit(<<"&">>), re_lit(<<"a", "n", "d">>)>>)), re_ss, re_lit(<<"a", "w", "a", "r", "d">>), re_opt(re_lit(<<"s">>))>>),
       re_cat(<<re_lit(<<"a", "c", "h", "i", "e", "v", "e", "m", "e", "n", "t">>), re_opt(re_lit(<<"s">>))>>),
       re_lit(<<"r", "e", "c", "o", "g", "n", "i", "t", "i", "o", "n">>)>>]>>
  \o
  <<[name |-> "languages",
     patterns |->
     <<re_cat(<<re_lit(<<"l", "a", "n", "g", "u", "a", "g", "e">>), re_opt(re_lit(<<"s">>))>>),
       re_cat(<<re_lit(<<"l", "a", "n", "g", "u", "a", "g", "e">>), re_sp, re_alt(<<re_lit(<<"p", "r", "o", "f", "i", "c", "i", "e", "n", "c", "y">>), re_cat(<<re_lit(<<"s", "k", "i", "l", "l">>), re_opt(re_lit(<<"s">>))>>)>>)>>)>>]>>
  \o
  <<[name |-> "interests",
     patterns |->
     <<re_cat(<<re_opt(re_cat(<<re_lit(<<"p", "e", "r", "s", "o", "n", "a", "l">>), re_sp>>)), re_lit(<<"i", "n", "t", "e", "r", "e", "s", "t">>), re_opt(re_lit(<<"s">>))>>),
       re_cat(<<re_lit(<<"h", "o", "b", "b", "i", "e", "s">>), re_opt(re_cat(<<re_ss, re_alt(<<re_lit(<<"&">>), re_lit(<<"a", "n", "d">>)>>), re_ss, re_lit(<<"i", "n", "t", "e", "r", "e", "s", "t">>), re_opt(re_lit(<<"s">>))>>))>>),
       re_lit(<<"a", "c", "t", "i", "v", "i", "t", "i", "e", "s">>)>>]>>
  \o
  <<[name |-> "references",
     patterns |->
     <<re_cat(<<re_lit(<<"r", "e", "f", "e", "r", "e", "n", "c", "e">>), re_opt(re_lit(<<"s">>))>>),
       re_cat(<<re_lit(<<"p", "r", "o", "f", "e", "s", "s", "i", "o", "n", "a", "l">>), re_sp, re_lit(<<"r", "e", "f", "e", "r", "e", "n", "c", "e">>), re_opt(re_lit(<<"s">>))>>)>>]>>
  \o
  <<[name |-> "volunteer",
     patterns |->
     <<re_cat(<<re_lit(<<"v", "o", "l", "u", "n", "t", "e", "e", "r">>), re_ss, re_opt(re_alt(<<re_lit(<<"e", "x", "p", "e", "r", "i", "e", "n", "c", "e">>), re_lit(<<"w", "o", "r", "k">>)>>))>>),
       re_cat(<<re_lit(<<"c", "o", "m", "m", "u", "n", "i", "t", "y">>), re_sp, re_alt(<<re_lit(<<"s", "e", "r", "v", "i", "c", "e">>), re_lit(<<"i", "n", "v", "o", "l", "v", "e", "m", "e", "n", "t">>)>>)>>)>>]>>

\* SectionExtractor.__init__: rf"^\s*{p}\s*:?\s*$"
compiled_pattern(p) == re_cat(<<re_ss, p, re_ss, re_opt(re_lit(<<":">>)), re_ss>>)

NoName == ""

\* SectionExtractor._identify_section(line)
_identify_section(line) ==
  LET stripped == str_strip(line)
      \* re.sub(r"[:\-–—]$", "", line).strip()
      clean_line ==
        str_strip(IF str_endswith(stripped, {":", "-", en_dash, em_dash})
                  THEN SubSeq(stripped, 1, Len(stripped) - 1)
                  ELSE stripped)
      target == str_lower(clean_line)
      \* the sections that have a pattern matching the line
      matching ==
        {n \in DOMAIN SECTION_PATTERNS :
           \E k \in DOMAIN SECTION_PATTERNS[n].patterns :
              re_fullmatch(compiled_pattern(SECTION_PATTERNS[n].patterns[k]),
                           target)}
  IN  IF stripped = <<>> \/ ~is_likely_header(stripped) THEN NoName
      ELSE IF matching # {}
      THEN SECTION_PATTERNS[CHOOSE n \in matching :
                              \A m \in matching : n <= m].name
      ELSE NoName

\* extract, lines 145-150: (line_idx, char_idx, section_name) of each header
\* line from line_idx on
RECURSIVE section_markers(_, _, _)
section_markers(lines, line_idx, current_char_idx) ==
  IF line_idx >= Len(lines) THEN <<>>
  ELSE LET line == lines[line_idx + 1]
           section_name == _identify_section(line)
       IN  (IF section_name # NoName
            THEN <<[line_idx |-> line_idx, char_idx |-> current_char_idx,
                    section_name |-> section_name]>>
            ELSE <<>>)
           \o section_markers(lines, line_idx + 1,
                              current_char_idx + Len(line) + 1)

\* sections.setdefault(name, value): the first value of a name is kept
dict_set_keeping_first(sections, name, value) ==
  IF \E k \in DOMAIN sections : sections[k].name = name
  THEN sections
  ELSE Append(sections, value)

\* sections[name] = value
dict_set(sections, name, value) ==
  IF \E k \in DOMAIN sections : sections[k].name = name
  THEN [k \in DOMAIN sections |->
          IF sections[k].name = name THEN value ELSE sections[k]]
  ELSE Append(sections, value)

\* extract, lines 159-178: the loop over the markers from position i on
RECURSIVE sections_from(_, _, _, _, _)
sections_from(text, lines, section_markers_, i, sections) ==
  IF i >= Len(section_markers_) THEN sections
  ELSE LET marker == section_markers_[i + 1]
           more == i + 1 < Len(section_markers_)
           end_line_idx == IF more THEN section_markers_[i + 2].line_idx
                           ELSE Len(lines)
           end_char == IF more THEN section_markers_[i + 2].char_idx
                       ELSE Len(text)
           section_lines == SubSeq(lines, marker.line_idx + 2, end_line_idx)
           content == str_strip(join(<<"\n">>, section_lines))
       IN  sections_from(text, lines, section_markers_, i + 1,
             IF content # <<>>
             THEN dict_set(sections, marker.section_name,
                           [name |-> marker.section_name, content |-> content,
                            start_index |-> marker.char_idx,
                            end_index |-> end_char])
             ELSE sections)

\* SectionExtractor.extract(text); _infer_sections returns an empty dict
SectionExtractor_extract(text) ==
  IF text = <<>> THEN <<>>
  ELSE LET lines == str_split(text, "\n")
           markers == section_markers(lines, 0, 0)
       IN  IF markers = <<>> THEN <<>>
           ELSE sections_from(text, lines, markers, 0, <<>>)

\* most lines of a text given to the extractor
MaxLines == 6

\* the lines of the texts: two headers of the section skills, a header of the
\* section experience, a line of content, a blank line
SectionLines == {<<"S", "k", "i", "l", "l", "s">>, <<"E", "X", "P", "E", "R", "I", "E", "N", "C", "E", ":">>, <<"P", "y", "t", "h", "o", "n">>, <<>>}
SectionTexts == {join(<<"\n">>, ls) : ls \in BoundedSeq(SectionLines, MaxLines)}

SectionsInit ==
  /\ LaterIdle
  /\ NormIdle /\ SkillIdle /\ MatchIdle /\ ctor = None

\* SectionExtractor().extract(text)
CallExtractSections(text) ==
  /\ call = None
  /\ call' = [fn |-> "SectionExtractor.extract", text |-> text,
              returned |-> SectionExtractor_extract(text)]
  /\ UNCHANGED call_only_frame

SectionsNext == \E text \in SectionTexts : CallExtractSections(text)

SpecSections == SectionsInit /\ [][SectionsNext]_vars

(***************************************************************************)
(* Claims about the section extractor.                                     *)
(***************************************************************************)
\* a call of SectionExtractor.extract has returned
ExtractReturned == call # None /\ call.fn = "SectionExtractor.extract"

\* the section name of each line of the text (from 1), NoName for a line
\* that is no header
LineNames(text) ==
  LET lines == str_split(text, "\n")
  IN  [n \in DOMAIN lines |-> _identify_section(lines[n])]

\* the numbers of the header lines, given the names of the lines
HeaderLines(names) == {n \in DOMAIN names : names[n] # NoName}

\* the position in the text of the first character of line n
LineStart(text, n) ==
  IF n = 1 THEN 0
  ELSE Len(join(<<"\n">>, SubSeq(str_split(text, "\n"), 1, n - 1))) + 1

\* C21: the sections extract returns have 0 <= start_index <= end_index <=
\* len(text), their ranges [start_index, end_index) do not overlap pairwise,
\* the section map lists them in increasing start_index order, and a text
\* with no recognized header gives an empty map
C21_SectionsOrderedAndDisjoint ==
  ExtractReturned =>
    LET sections == call.returned
    IN  /\ \A n \in DOMAIN sections :
             /\ 0 <= sections[n].start_index
             /\ sections[n].start_index <= sections[n].end_index
             /\ sections[n].end_index <= Len(call.text)
        /\ \A a, b \in DOMAIN sections :
             a # b => \/ sections[a].end_index <= sections[b].start_index
                      \/ sections[b].end_index <= sections[a].start_index
        /\ \A a, b \in DOMAIN sections :
             a < b => sections[a].start_index < sections[b].start_index
        /\ HeaderLines(LineNames(call.text)) = {} => sections = <<>>

\* the same without the order of the map
C21_RangesDisjoint ==
  ExtractReturned =>
    LET sections == call.returned
    IN  /\ \A n \in DOMAIN sections :
             /\ 0 <= sections[n].start_index
             /\ sections[n].start_index <= sections[n].end_index
             /\ sections[n].end_index <= Len(call.text)
        /\ \A a, b \in DOMAIN sections :
             a # b => \/ sections[a].end_index <= sections[b].start_index
                      \/ sections[b].end_index <= sections[a].start_index
        /\ HeaderLines(LineNames(call.text)) = {} => sections = <<>>

\* the header line that follows header line n, 0 if n is the last one
NextHeaderLine(names, n) ==
  LET later == {m \in HeaderLines(names) : m > n}
  IN  IF later = {} THEN 0 ELSE CHOOSE m \in later : \A k \in later : m <= k

\* the slice of the text that belongs to header line n: from the header to
\* the next header or the end of the text, its content without the header
SliceOf(text, names, n) ==
  LET lines == str_split(text, "\n")
      next == NextHeaderLine(names, n)
      last_line == IF next = 0 THEN Len(lines) ELSE next - 1
  IN  [name |-> names[n],
       content |-> str_strip(join(<<"\n">>, SubSeq(lines, n + 1, last_line))),
       start_index |-> LineStart(text, n),
       end_index |-> IF next = 0 THEN Len(text) ELSE LineStart(text, next)]

\* the header lines that are recognized as the section name
HeadersNamed(names, name) == {n \in DOMAIN names : names[n] = name}

\* the largest number of a non-empty set of numbers
Last(S) == CHOOSE n \in S : \A m \in S : m <= n

\* the entries of the section map for a name
EntriesNamed(sections, name) ==
  {k \in DOMAIN sections : sections[k].name = name}

\* the names recognized at more than one header line
RepeatedNames(names) ==
  {names[n] : n \in {m \in HeaderLines(names) :
                       Cardinality(HeadersNamed(names, names[m])) > 1}}

\* C26 as stated: when a section name is recognized at more than one header
\* line, the section map holds a single entry for that name, and that entry
\* is the slice belonging to the last header of that name in scan order
C26_LastHeaderWins ==
  ExtractReturned =>
    LET names == LineNames(call.text)
    IN  \A name \in RepeatedNames(names) :
          /\ Cardinality(EntriesNamed(call.returned, name)) = 1
          /\ \A k \in EntriesNamed(call.returned, name) :
               call.returned[k] =
                 SliceOf(call.text, names, Last(HeadersNamed(names, name)))

\* C26, amended: when a section name is recognized at more than one header
\* line, the section map holds at most one entry for that name; the entry is
\* the slice of the last header of that name whose slice has content, earlier
\* slices of that name being neither kept nor concatenated, and there is no
\* entry when no header of that name has content
C26_LastHeaderWithContentWins ==
  ExtractReturned =>
    LET names == LineNames(call.text)
    IN  \A name \in RepeatedNames(names) :
          LET with_content == {n \in HeadersNamed(names, name) :
                                 SliceOf(call.text, names, n).content # <<>>}
          IN  /\ Cardinality(EntriesNamed(call.returned, name)) =
                   (IF with_content = {} THEN 0 ELSE 1)
              /\ \A k \in EntriesNamed(call.returned, name) :
                   call.returned[k] =
                     SliceOf(call.text, names, Last(with_content))

\* a text with two headers of one name, each with content of its own, has
\* been given, and the map holds the slice of the second
C26_Witness ==
  /\ ExtractReturned
  /\ LET names == LineNames(call.text)
     IN  \E name \in RepeatedNames(names) :
           \E first, second \in HeadersNamed(names, name) :
             /\ first < second
             /\ second = Last(HeadersNamed(names, name))
             /\ SliceOf(call.text, names, first).content # <<>>
             /\ SliceOf(call.text, names, second).content # <<>>
             /\ \E k \in DOMAIN call.returned :
                  call.returned[k] = SliceOf(call.text, names, second)

(***************************************************************************)
(* resume_parser/extractors/skill_extractor.py and                         *)
(* job_parser/extractors/skill_extractor.py.  A set of skills is a set of  *)
(* strings; sorted(list(set)) is the list of its elements in the order of  *)
(* Python's strings.                                                       *)
(***************************************************************************)
TECHNICAL_SKILLS ==
  <<[category |-> "programming_languages",
     skills |->
       <<<<"P", "y", "t", "h", "o", "n">>, <<"J", "a", "v", "a">>, <<"J", "a", "v", "a", "S", "c", "r", "i", "p", "t">>, <<"T", "y", "p", "e", "S", "c", "r", "i", "p", "t">>, <<"C">>, <<"C", "+", "+">>,
         <<"C", "#">>, <<"R", "u", "b", "y">>, <<"G", "o">>, <<"G", "o", "l", "a", "n", "g">>, <<"R", "u", "s", "t">>, <<"S", "w", "i", "f", "t">>, <<"K", "o", "t", "l", "i", "n">>,
         <<"S", "c", "a", "l", "a">>, <<"P", "H", "P">>, <<"P", "e", "r", "l">>, <<"R">>, <<"M", "A", "T", "L", "A", "B">>, <<"J", "u", "l", "i", "a">>, <<"H", "a", "s", "k", "e", "l", "l">>,
         <<"E", "r", "l", "a", "n", "g">>, <<"C", "l", "o", "j", "u", "r", "e">>, <<"F", "#">>, <<"O", "b", "j", "e", "c", "t", "i", "v", "e", "-", "C">>, <<"D", "a", "r", "t">>, <<"L", "u", "a">>,
         <<"G", "r", "o", "o", "v", "y">>, <<"S", "h", "e", "l", "l">>, <<"B", "a", "s", "h">>, <<"P", "o", "w", "e", "r", "S", "h", "e", "l", "l">>, <<"V", "B", "A">>, <<"C", "O", "B", "O", "L">>,
         <<"F", "o", "r", "t", "r", "a", "n">>, <<"A", "s", "s", "e", "m", "b", "l", "y">>, <<"S", "Q", "L">>, <<"P", "L", "/", "S", "Q", "L">>, <<"T", "-", "S", "Q", "L">>>>]>>
  \o
  <<[category |-> "web_technologies",
     skills |->
       <<<<"H", "T", "M", "L">>, <<"H", "T", "M", "L", "5">>, <<"C", "S", "S">>, <<"C", "S", "S", "3">>, <<"S", "A", "S", "S">>, <<"S", "C", "S", "S">>, <<"L", "E", "S", "S">>,
         <<"R", "e", "a", "c", "t">>, <<"R", "e", "a", "c", "t", ".", "j", "s">>, <<"R", "e", "a", "c", "t", "J", "S">>, <<"A", "n", "g", "u", "l", "a", "r">>, <<"A", "n", "g", "u", "l", "a", "r", "J", "S">>,
         <<"V", "u", "e">>, <<"V", "u", "e", ".", "j", "s">>, <<"S", "v", "e", "l", "t", "e">>, <<"N", "e", "x", "t", ".", "j", "s">>, <<"N", "e", "x", "t", "J", "S">>, <<"N", "u", "x", "t">>,
         <<"N", "u", "x", "t", ".", "j", "s">>, <<"G", "a", "t", "s", "b", "y">>, <<"j", "Q", "u", "e", "r", "y">>, <<"B", "o", "o", "t", "s", "t", "r", "a", "p">>, <<"T", "a", "i", "l", "w", "i", "n", "d">>,
         <<"T", "a", "i", "l", "w", "i", "n", "d", " ", "C", "S", "S">>, <<"M", "a", "t", "e", "r", "i", "a", "l", " ", "U", "I">>, <<"R", "e", "d", "u", "x">>, <<"M", "o", "b", "X">>, <<"V", "u", "e", "x">>,
         <<"G", "r", "a", "p", "h", "Q", "L">>, <<"R", "E", "S", "T">>, <<"R", "E", "S", "T", "f", "u", "l">>, <<"N", "o", "d", "e", ".", "j", "s">>, <<"N", "o", "d", "e", "J", "S">>,
         <<"E", "x", "p", "r", "e", "s", "s">>, <<"E", "x", "p", "r", "e", "s", "s", ".", "j", "s">>, <<"F", "a", "s", "t", "i", "f", "y">>, <<"D", "j", "a", "n", "g", "o">>, <<"F", "l", "a", "s", "k">>,
         <<"F", "a", "s", "t", "A", "P", "I">>, <<"S", "p", "r", "i", "n", "g">>, <<"S", "p", "r", "i", "n", "g", " ", "B", "o", "o", "t">>, <<"R", "u", "b", "y", " ", "o", "n", " ", "R", "a", "i", "l", "s">>, <<"R", "a", "i", "l", "s">>,
         <<"L", "a", "r", "a", "v", "e", "l">>, <<"A", "S", "P", ".", "N", "E", "T">>, <<".", "N", "E", "T", " ", "C", "o", "r", "e">>, <<"W", "e", "b", "p", "a", "c", "k">>, <<"V", "i", "t", "e">>,
         <<"P", "a", "r", "c", "e", "l">>, <<"R", "o", "l", "l", "u", "p">>, <<"B", "a", "b", "e", "l">>>>]>>
  \o
  <<[category |-> "databases",
     skills |->
       <<<<"M", "y", "S", "Q", "L">>, <<"P", "o", "s", "t", "g", "r", "e", "S", "Q", "L">>, <<"P", "o", "s", "t", "g", "r", "e", "s">>, <<"M", "o", "n", "g", "o", "D", "B">>, <<"S", "Q", "L", "i", "t", "e">>,
         <<"O", "r", "a", "c", "l", "e">>, <<"S", "Q", "L", " ", "S", "e", "r", "v", "e", "r">>, <<"M", "S", "S", "Q", "L">>, <<"M", "a", "r", "i", "a", "D", "B">>, <<"R", "e", "d", "i", "s">>,
         <<"C", "a", "s", "s", "a", "n", "d", "r", "a">>, <<"D", "y", "n", "a", "m", "o", "D", "B">>, <<"E", "l", "a", "s", "t", "i", "c", "s", "e", "a", "r", "c", "h">>, <<"C", "o", "u", "c", "h", "D", "B">>, <<"N", "e", "o", "4", "j">>,
         <<"F", "i", "r", "e", "b", "a", "s", "e">>, <<"F", "i", "r", "e", "s", "t", "o", "r", "e">>, <<"S", "u", "p", "a", "b", "a", "s", "e">>, <<"P", "o", "u", "c", "h", "D", "B">>, <<"I", "n", "f", "l", "u", "x", "D", "B">>,
         <<"T", "i", "m", "e", "s", "c", "a", "l", "e", "D", "B">>>>]>>
  \o
  <<[category |-> "cloud_platforms",
     skills |->
       <<<<"A", "W", "S">>, <<"A", "m", "a", "z", "o", "n", " ", "W", "e", "b", " ", "S", "e", "r", "v", "i", "c", "e", "s">>, <<"A", "z", "u", "r", "e">>, <<"M", "i", "c", "r", "o", "s", "o", "f", "t", " ", "A", "z", "u", "r", "e">>,
         <<"G", "C", "P">>, <<"G", "o", "o", "g", "l", "e", " ", "C", "l", "o", "u", "d">>, <<"G", "o", "o", "g", "l", "e", " ", "C", "l", "o", "u", "d", " ", "P", "l", "a", "t", "f", "o", "r", "m">>, <<"H", "e", "r", "o", "k", "u">>,
         <<"D", "i", "g", "i", "t", "a", "l", "O", "c", "e", "a", "n">>, <<"L", "i", "n", "o", "d", "e">>, <<"V", "e", "r", "c", "e", "l">>, <<"N", "e", "t", "l", "i", "f", "y">>, <<"C", "l", "o", "u", "d", "f", "l", "a", "r", "e">>,
         <<"I", "B", "M", " ", "C", "l", "o", "u", "d">>, <<"O", "r", "a", "c", "l", "e", " ", "C", "l", "o", "u", "d">>, <<"A", "l", "i", "b", "a", "b", "a", " ", "C", "l", "o", "u", "d">>>>]>>
  \o
  <<[category |-> "devops_tools",
     skills |->
       <<<<"D", "o", "c", "k", "e", "r">>, <<"K", "u", "b", "e", "r", "n", "e", "t", "e", "s">>, <<"K", "8", "s">>, <<"J", "e", "n", "k", "i", "n", "s">>, <<"G", "i", "t", "L", "a", "b", " ", "C", "I">>,
         <<"G", "i", "t", "H", "u", "b", " ", "A", "c", "t", "i", "o", "n", "s">>, <<"C", "i", "r", "c", "l", "e", "C", "I">>, <<"T", "r", "a", "v", "i", "s", " ", "C", "I">>, <<"A", "n", "s", "i", "b", "l", "e">>,
         <<"T", "e", "r", "r", "a", "f", "o", "r", "m">>, <<"P", "u", "p", "p", "e", "t">>, <<"C", "h", "e", "f">>, <<"V", "a", "g", "r", "a", "n", "t">>, <<"H", "e", "l", "m">>, <<"A", "r", "g", "o", "C", "D">>,
         <<"P", "r", "o", "m", "e", "t", "h", "e", "u", "s">>, <<"G", "r", "a", "f", "a", "n", "a">>, <<"D", "a", "t", "a", "d", "o", "g">>, <<"N", "e", "w", " ", "R", "e", "l", "i", "c">>, <<"S", "p", "l", "u", "n", "k">>,
         <<"E", "L", "K", " ", "S", "t", "a", "c", "k">>, <<"N", "g", "i", "n", "x">>, <<"A", "p", "a", "c", "h", "e">>>>]>>
  \o
  <<[category |-> "version_control",
     skills |->
       <<<<"G", "i", "t">>, <<"G", "i", "t", "H", "u", "b">>, <<"G", "i", "t", "L", "a", "b">>, <<"B", "i", "t", "b", "u", "c", "k", "e", "t">>, <<"S", "V", "N">>, <<"S", "u", "b", "v", "e", "r", "s", "i", "o", "n">>,
         <<"M", "e", "r", "c", "u", "r", "i", "a", "l">>, <<"P", "e", "r", "f", "o", "r", "c", "e">>>>]>>
  \o
  <<[category |-> "data_science",
     skills |->
       <<<<"P", "a", "n", "d", "a", "s">>, <<"N", "u", "m", "P", "y">>, <<"S", "c", "i", "P", "y">>, <<"S", "c", "i", "k", "i", "t", "-", "l", "e", "a", "r", "n">>, <<"T", "e", "n", "s", "o", "r", "F", "l", "o", "w">>,
         <<"P", "y", "T", "o", "r", "c", "h">>, <<"K", "e", "r", "a", "s">>, <<"O", "p", "e", "n", "C", "V">>, <<"N", "L", "T", "K">>, <<"S", "p", "a", "C", "y">>, <<"M", "a", "t", "p", "l", "o", "t", "l", "i", "b">>,
         <<"S", "e", "a", "b", "o", "r", "n">>, <<"P", "l", "o", "t", "l", "y">>, <<"T", "a", "b", "l", "e", "a", "u">>, <<"P", "o", "w", "e", "r", " ", "B", "I">>, <<"J", "u", "p", "y", "t", "e", "r">>,
         <<"A", "p", "a", "c", "h", "e", " ", "S", "p", "a", "r", "k">>, <<"H", "a", "d", "o", "o", "p">>, <<"A", "i", "r", "f", "l", "o", "w">>, <<"M", "L", "f", "l", "o", "w">>,
         <<"H", "u", "g", "g", "i", "n", "g", " ", "F", "a", "c", "e">>, <<"L", "a", "n", "g", "C", "h", "a", "i", "n">>, <<"O", "p", "e", "n", "A", "I">>, <<"G", "P", "T">>, <<"L", "L", "M">>>>]>>
  \o
  <<[category |-> "mobile",
     skills |->
       <<<<"i", "O", "S">>, <<"A", "n", "d", "r", "o", "i", "d">>, <<"R", "e", "a", "c", "t", " ", "N", "a", "t", "i", "v", "e">>, <<"F", "l", "u", "t", "t", "e", "r">>, <<"X", "a", "m", "a", "r", "i", "n">>,
         <<"I", "o", "n", "i", "c">>, <<"C", "o", "r", "d", "o", "v", "a">>, <<"S", "w", "i", "f", "t", "U", "I">>, <<"U", "I", "K", "i", "t">>, <<"J", "e", "t", "p", "a", "c", "k", " ", "C", "o", "m", "p", "o", "s", "e">>>>]>>
  \o
  <<[category |-> "testing",
     skills |->
       <<<<"J", "e", "s", "t">>, <<"M", "o", "c", "h", "a">>, <<"C", "h", "a", "i">>, <<"J", "a", "s", "m", "i", "n", "e">>, <<"C", "y", "p", "r", "e", "s", "s">>, <<"S", "e", "l", "e", "n", "i", "u", "m">>,
         <<"P", "l", "a", "y", "w", "r", "i", "g", "h", "t">>, <<"P", "u", "p", "p", "e", "t", "e", "e", "r">>, <<"P", "y", "T", "e", "s", "t">>, <<"u", "n", "i", "t", "t", "e", "s", "t">>, <<"J", "U", "n", "i", "t">>,
         <<"T", "e", "s", "t", "N", "G">>, <<"R", "S", "p", "e", "c">>, <<"C", "a", "p", "y", "b", "a", "r", "a">>, <<"P", "o", "s", "t", "m", "a", "n">>, <<"S", "o", "a", "p", "U", "I">>>>]>>
  \o
  <<[category |-> "other_technical",
     skills |->
       <<<<"L", "i", "n", "u", "x">>, <<"U", "n", "i", "x">>, <<"W", "i", "n", "d", "o", "w", "s", " ", "S", "e", "r", "v", "e", "r">>, <<"m", "a", "c", "O", "S">>, <<"A", "P", "I">>, <<"A", "P", "I", "s">>,
         <<"M", "i", "c", "r", "o", "s", "e", "r", "v", "i", "c", "e", "s">>, <<"S", "O", "A">>, <<"W", "e", "b", "S", "o", "c", "k", "e", "t">>, <<"O", "A", "u", "t", "h">>, <<"J", "W", "T">>, <<"S", "A", "M", "L">>,
         <<"S", "S", "O">>, <<"L", "D", "A", "P">>, <<"A", "g", "i", "l", "e">>, <<"S", "c", "r", "u", "m">>, <<"K", "a", "n", "b", "a", "n">>, <<"J", "i", "r", "a">>,
         <<"C", "o", "n", "f", "l", "u", "e", "n", "c", "e">>, <<"F", "i", "g", "m", "a">>, <<"S", "k", "e", "t", "c", "h">>, <<"A", "d", "o", "b", "e", " ", "X", "D">>, <<"I", "n", "V", "i", "s", "i", "o", "n">>>>]>>

SOFT_SKILLS ==
  <<<<"L", "e", "a", "d", "e", "r", "s", "h", "i", "p">>, <<"C", "o", "m", "m", "u", "n", "i", "c", "a", "t", "i", "o", "n">>, <<"T", "e", "a", "m", "w", "o", "r", "k">>, <<"P", "r", "o", "b", "l", "e", "m", " ", "S", "o", "l", "v", "i", "n", "g">>,
    <<"C", "r", "i", "t", "i", "c", "a", "l", " ", "T", "h", "i", "n", "k", "i", "n", "g">>, <<"T", "i", "m", "e", " ", "M", "a", "n", "a", "g", "e", "m", "e", "n", "t">>, <<"P", "r", "o", "j", "e", "c", "t", " ", "M", "a", "n", "a", "g", "e", "m", "e", "n", "t">>,
    <<"A", "n", "a", "l", "y", "t", "i", "c", "a", "l", " ", "S", "k", "i", "l", "l", "s">>, <<"A", "t", "t", "e", "n", "t", "i", "o", "n", " ", "t", "o", " ", "D", "e", "t", "a", "i", "l">>, <<"A", "d", "a", "p", "t", "a", "b", "i", "l", "i", "t", "y">>,
    <<"C", "o", "l", "l", "a", "b", "o", "r", "a", "t", "i", "o", "n">>, <<"C", "r", "e", "a", "t", "i", "v", "i", "t", "y">>, <<"D", "e", "c", "i", "s", "i", "o", "n", " ", "M", "a", "k", "i", "n", "g">>, <<"N", "e", "g", "o", "t", "i", "a", "t", "i", "o", "n">>,
    <<"P", "r", "e", "s", "e", "n", "t", "a", "t", "i", "o", "n">>, <<"P", "u", "b", "l", "i", "c", " ", "S", "p", "e", "a", "k", "i", "n", "g">>, <<"C", "o", "n", "f", "l", "i", "c", "t", " ", "R", "e", "s", "o", "l", "u", "t", "i", "o", "n">>,
    <<"S", "t", "r", "a", "t", "e", "g", "i", "c", " ", "P", "l", "a", "n", "n", "i", "n", "g">>, <<"M", "e", "n", "t", "o", "r", "i", "n", "g">>, <<"C", "o", "a", "c", "h", "i", "n", "g">>, <<"C", "u", "s", "t", "o", "m", "e", "r", " ", "S", "e", "r", "v", "i", "c", "e">>,
    <<"C", "l", "i", "e", "n", "t", " ", "R", "e", "l", "a", "t", "i", "o", "n", "s">>, <<"S", "t", "a", "k", "e", "h", "o", "l", "d", "e", "r", " ", "M", "a", "n", "a", "g", "e", "m", "e", "n", "t">>, <<"C", "r", "o", "s", "s", "-", "f", "u", "n", "c", "t", "i", "o", "n", "a", "l">>,
    <<"S", "e", "l", "f", "-", "m", "o", "t", "i", "v", "a", "t", "e", "d">>, <<"R", "e", "s", "u", "l", "t", "s", "-", "o", "r", "i", "e", "n", "t", "e", "d">>, <<"D", "e", "t", "a", "i", "l", "-", "o", "r", "i", "e", "n", "t", "e", "d">>,
    <<"F", "a", "s", "t", " ", "l", "e", "a", "r", "n", "e", "r">>, <<"M", "u", "l", "t", "i", "-", "t", "a", "s", "k", "i", "n", "g">>>>

\* SkillExtractor.__init__, lines 123-131: self._all_skills
SkillExtractor_all_skills(include_soft_skills, custom_skills) ==
  UNION {Range(TECHNICAL_SKILLS[n].skills) : n \in DOMAIN TECHNICAL_SKILLS}
    \cup (IF include_soft_skills THEN Range(SOFT_SKILLS) ELSE {})
    \cup Range(custom_skills)

\* SkillExtractor.__init__, lines 135-140: rf"\b{escaped}\b" compiled with
\* re.IGNORECASE, matched against the text in lower case
skill_pattern(skill) == re_cat(<<re_b, re_lit(str_lower(skill)), re_b>>)

\* sorted(list(S)) for a set of strings
RECURSIVE sorted_set(_)
sorted_set(S) ==
  IF S = {} THEN <<>>
  ELSE LET least == CHOOSE x \in S : \A y \in S \ {x} : str_less(x, y)
       IN  <<least>> \o sorted_set(S \ {least})

\* SkillExtractor.extract(text, skills_section) of an extractor that knows
\* all_skills; skills_section is NoneStr when it is left out
SkillExtractor_extract(all_skills, text, skills_section) ==
  LET given == skills_section # NoneStr /\ skills_section # <<>>
      all_text == IF given THEN skills_section \o <<"\n">> \o text ELSE text
      lower == str_lower(all_text)
      \* pattern.search(all_text): a match starts where the first character
      \* of the skill stands
      found_skills ==
        {skill \in all_skills :
           \E i \in 0..(Len(lower) - 1) :
              /\ lower[i + 1] = LowerChar(skill[1])
              /\ re_ends(skill_pattern(skill), lower, i) # {}}
  IN  sorted_set(found_skills)

\* JobSkillExtractor.REQUIRED_KEYWORDS and PREFERRED_KEYWORDS
REQUIRED_KEYWORDS ==
  <<<<"r", "e", "q", "u", "i", "r", "e", "d">>, <<"r", "e", "q", "u", "i", "r", "e", "m", "e", "n", "t", "s">>, <<"m", "u", "s", "t", " ", "h", "a", "v", "e">>, <<"m", "u", "s", "t", "-", "h", "a", "v", "e">>,
    <<"q", "u", "a", "l", "i", "f", "i", "c", "a", "t", "i", "o", "n", "s">>, <<"m", "a", "n", "d", "a", "t", "o", "r", "y">>, <<"e", "s", "s", "e", "n", "t", "i", "a", "l">>, <<"m", "i", "n", "i", "m", "u", "m", " ", "r", "e", "q", "u", "i", "r", "e", "m", "e", "n", "t", "s">>,
    <<"y", "o", "u", " ", "w", "i", "l", "l", " ", "n", "e", "e", "d">>, <<"y", "o", "u", " ", "m", "u", "s", "t", " ", "h", "a", "v", "e">>, <<"w", "h", "a", "t", " ", "y", "o", "u", " ", "n", "e", "e", "d">>>>
PREFERRED_KEYWORDS ==
  <<<<"p", "r", "e", "f", "e", "r", "r", "e", "d">>, <<"n", "i", "c", "e", " ", "t", "o", " ", "h", "a", "v", "e">>, <<"n", "i", "c", "e", "-", "t", "o", "-", "h", "a", "v", "e">>, <<"b", "o", "n", "u", "s">>, <<"p", "l", "u", "s">>,
    <<"a", " ", "p", "l", "u", "s">>, <<"d", "e", "s", "i", "r", "e", "d">>, <<"a", "d", "d", "i", "t", "i", "o", "n", "a", "l">>, <<"g", "o", "o", "d", " ", "t", "o", " ", "h", "a", "v", "e">>, <<"i", "d", "e", "a", "l", "l", "y">>,
    <<"a", "d", "v", "a", "n", "t", "a", "g", "e", "o", "u", "s">>>>

\* kw in line
str_contains(line, kw) ==
  \E i \in 0..(Len(line) - Len(kw)) : SubSeq(line, i + 1, i + Len(kw)) = kw

\* JobSkillExtractor._is_section_header(line): re.match with re.IGNORECASE
job_section_patterns ==
  <<re_alt(<<re_lit(<<"a", "b", "o", "u", "t">>), re_lit(<<"w", "h", "a", "t">>), re_lit(<<"w", "h", "o">>), re_lit(<<"w", "h", "y">>),
             re_lit(<<"h", "o", "w">>)>>),
    re_alt(<<re_cat(<<re_lit(<<"r", "e", "q", "u", "i", "r", "e", "m", "e", "n", "t">>), re_opt(re_lit(<<"s">>))>>),
             re_cat(<<re_lit(<<"q", "u", "a", "l", "i", "f", "i", "c", "a", "t", "i", "o", "n">>), re_opt(re_lit(<<"s">>))>>),
             re_cat(<<re_lit(<<"s", "k", "i", "l", "l">>), re_opt(re_lit(<<"s">>))>>)>>),
    re_alt(<<re_cat(<<re_lit(<<"r", "e", "s", "p", "o", "n", "s", "i", "b", "i", "l", "i", "t", "i", "e">>), re_opt(re_lit(<<"s">>))>>),
             re_lit(<<"d", "u", "t", "i", "e", "s">>)>>),
    re_alt(<<re_cat(<<re_lit(<<"b", "e", "n", "e", "f", "i", "t">>), re_opt(re_lit(<<"s">>))>>),
             re_cat(<<re_lit(<<"p", "e", "r", "k">>), re_opt(re_lit(<<"s">>))>>),
             re_lit(<<"c", "o", "m", "p", "e", "n", "s", "a", "t", "i", "o", "n">>)>>),
    re_cat(<<re_lit(<<"a", "b", "o", "u", "t">>), re_sp,
             re_alt(<<re_lit(<<"u", "s">>),
                      re_cat(<<re_lit(<<"t", "h", "e">>), re_sp,
                               re_alt(<<re_lit(<<"c", "o", "m", "p", "a", "n", "y">>), re_lit(<<"r", "o", "l", "e">>),
                                        re_lit(<<"t", "e", "a", "m">>)>>)>>)>>)>>)>>

_is_section_header(line) ==
  LET stripped == str_strip(line)
  IN  IF stripped = <<>> THEN FALSE
      ELSE IF str_isupper(stripped) /\ Len(stripped) < 50 THEN TRUE
      ELSE IF str_endswith(stripped, {":"}) /\ Len(stripped) < 50 THEN TRUE
      ELSE \E n \in DOMAIN job_section_patterns :
              re_ends(job_section_patterns[n], str_lower(stripped), 0) # {}

\* JobSkillExtractor._find_section(text, keywords)
_find_section(text, keywords) ==
  LET lines == str_split(text, "\n")
      with_keyword == {n \in DOMAIN lines :
                         \E k \in DOMAIN keywords :
                            str_contains(str_lower(lines[n]), keywords[k])}
      \* the lines from 1: section_start + 1 and section_end + 1
      start == CHOOSE n \in with_keyword : \A m \in with_keyword : n <= m
      headers == {n \in (start + 1)..Len(lines) : _is_section_header(lines[n])}
      end == IF headers = {} THEN Len(lines) + 1
             ELSE CHOOSE n \in headers : \A m \in headers : n <= m
  IN  IF with_keyword = {} THEN <<>>
      ELSE join(<<"\n">>, SubSeq(lines, start, end - 1))

\* extract_with_priority without its line 110
JobSkillExtractor_extract_keeping_overlap(text) ==
  LET all_skills == SkillExtractor_all_skills(TRUE, <<>>)
      required_section == _find_section(text, REQUIRED_KEYWORDS)
      preferred_section == _find_section(text, PREFERRED_KEYWORDS)
      in_required == IF required_section # <<>>
                     THEN Range(SkillExtractor_extract(all_skills,
                                                       required_section, NoneStr))
                     ELSE {}
      in_preferred == IF preferred_section # <<>>
                      THEN Range(SkillExtractor_extract(all_skills,
                                                        preferred_section, NoneStr))
                      ELSE {}
      required == IF in_required = {} /\ in_preferred = {}
                  THEN Range(SkillExtractor_extract(all_skills, text, NoneStr))
                  ELSE in_required
  IN  IF text = <<>> THEN [required |-> <<>>, preferred |-> <<>>]
      ELSE [required |-> sorted_set(required),
            preferred |-> sorted_set(in_preferred)]

\* JobSkillExtractor.extract_with_priority(text), for JobSkillExtractor()
JobSkillExtractor_extract_with_priority(text) ==
  LET all_skills == SkillExtractor_all_skills(TRUE, <<>>)
      required_section == _find_section(text, REQUIRED_KEYWORDS)
      preferred_section == _find_section(text, PREFERRED_KEYWORDS)
      in_required == IF required_section # <<>>
                     THEN Range(SkillExtractor_extract(all_skills,
                                                       required_section, NoneStr))
                     ELSE {}
      in_preferred == IF preferred_section # <<>>
                      THEN Range(SkillExtractor_extract(all_skills,
                                                        preferred_section, NoneStr))
                      ELSE {}
      required == IF in_required = {} /\ in_preferred = {}
                  THEN Range(SkillExtractor_extract(all_skills, text, NoneStr))
                  ELSE in_required
  IN  IF text = <<>> THEN [required |-> <<>>, preferred |-> <<>>]
      ELSE [required |-> sorted_set(required),
            preferred |-> sorted_set(in_preferred \ required)]

\* ResumeParser._parse_content, lines 151-169 and 183-189: the skills of a
\* parsed resume, for a parser made with the two constructor arguments
ResumeParser_skills(include_soft_skills, custom_skills, text) ==
  LET sections == SectionExtractor_extract(text)
      skills_section ==
        IF \E k \in DOMAIN sections : sections[k].name = "skills"
        THEN sections[CHOOSE k \in DOMAIN sections :
                        sections[k].name = "skills"].content
        ELSE NoneStr
  IN  SkillExtractor_extract(
        SkillExtractor_all_skills(include_soft_skills, custom_skills),
        text, skills_section)

\* most lines of a text given to the skill extractors
MaxSkillLines == 3

\* lines of resumes and the custom skills a parser may be made with
ResumeSkillLines ==
  {<<"S", "k", "i", "l", "l", "s">>, <<"K", "8", "s", ",", " ", "K", "u", "b", "e", "r", "n", "e", "t", "e", "s">>, <<"P", "y", "t", "h", "o", "n", " ", "a", "n", "d", " ", "r", "e", "a", "c", "t">>, <<"R", "e", "a", "c", "t", "J", "S">>,
   <<"T", "e", "a", "m", "w", "o", "r", "k", " ", "i", "n", " ", "C", "+", "+">>}
ResumeSkillTexts ==
  {join(<<"\n">>, ls) : ls \in BoundedSeq(ResumeSkillLines, MaxSkillLines)}
CustomSkills == {<<>>, <<<<"p", "y", "t", "h", "o", "n">>>>}

\* lines of job descriptions
JobSkillLines ==
  {<<"R", "e", "q", "u", "i", "r", "e", "d", ":", " ", "P", "y", "t", "h", "o", "n">>, <<"P", "r", "e", "f", "e", "r", "r", "e", "d", ":", " ", "D", "o", "c", "k", "e", "r", " ", "a", "n", "d", " ", "p", "y", "t", "h", "o", "n">>, <<"N", "i", "c", "e", " ", "t", "o", " ", "h", "a", "v", "e">>,
   <<"K", "8", "s", " ", "a", "n", "d", " ", "P", "y", "t", "h", "o", "n">>, <<"A", "b", "o", "u", "t", " ", "u", "s">>, <<"K", "u", "b", "e", "r", "n", "e", "t", "e", "s">>}
JobSkillTexts ==
  {join(<<"\n">>, ls) : ls \in BoundedSeq(JobSkillLines, MaxSkillLines)}

SkillExtractInit ==
  /\ LaterIdle
  /\ NormIdle /\ SkillIdle /\ MatchIdle /\ ctor = None

\* ResumeParser(include_soft_skills, custom_skills).parse_text(text), as far
\* as resume.skills
ParseSkills(include_soft_skills, custom_skills, text) ==
  /\ call = None
  /\ call' = [fn |-> "ResumeParser.parse_text",
              include_soft_skills |-> include_soft_skills,
              custom_skills |-> custom_skills, text |-> text,
              returned |-> ResumeParser_skills(include_soft_skills,
                                               custom_skills, text)]
  /\ UNCHANGED call_only_frame

\* JobSkillExtractor().extract_with_priority(text)
ExtractWithPriority(text) ==
  /\ call = None
  /\ call' = [fn |-> "JobSkillExtractor.extract_with_priority", text |-> text,
              returned |-> JobSkillExtractor_extract_with_priority(text)]
  /\ UNCHANGED call_only_frame

SkillExtractNext ==
  \/ \E include_soft_skills \in BOOLEAN, custom_skills \in CustomSkills,
        text \in ResumeSkillTexts :
        ParseSkills(include_soft_skills, custom_skills, text)
  \/ \E text \in JobSkillTexts : ExtractWithPriority(text)

SpecSkillExtract == SkillExtractInit /\ [][SkillExtractNext]_vars

(***************************************************************************)
(* Claims about the skill extractors.                                      *)
(***************************************************************************)
\* a call of extract_with_priority has returned
PriorityReturned ==
  call # None /\ call.fn = "JobSkillExtractor.extract_with_priority"

\* some line of the text holds one of the keywords
HasKeyword(text, keywords) ==
  \E n \in DOMAIN str_split(text, "\n"), k \in DOMAIN keywords :
     str_contains(str_lower(str_split(text, "\n")[n]), keywords[k])

\* the skills found in a piece of text
SkillsFound(text) ==
  Range(SkillExtractor_extract(SkillExtractor_all_skills(TRUE, <<>>), text,
                               NoneStr))

\* the skills found in the span that a list of keywords opens
SkillsInSpan(text, keywords) ==
  IF _find_section(text, keywords) = <<>> THEN {}
  ELSE SkillsFound(_find_section(text, keywords))

\* C22: the required and preferred lists of extract_with_priority share no
\* skill, a skill found in both the required span and the preferred span is
\* in the required list only, and when neither span is found every skill
\* found in the document is required and the preferred list is empty
C22_RequiredTakesPrecedence ==
  PriorityReturned =>
    LET required == Range(call.returned.required)
        preferred == Range(call.returned.preferred)
    IN  /\ required \cap preferred = {}
        /\ \A skill \in SkillsInSpan(call.text, REQUIRED_KEYWORDS)
                          \cap SkillsInSpan(call.text, PREFERRED_KEYWORDS) :
             skill \in required /\ skill \notin preferred
        /\ (~HasKeyword(call.text, REQUIRED_KEYWORDS)
              /\ ~HasKeyword(call.text, PREFERRED_KEYWORDS)) =>
             /\ required = SkillsFound(call.text)
             /\ call.returned.preferred = <<>>

\* a job text whose required and preferred spans both hold a skill, the
\* preferred span holding another one too, has been given
C22_Witness ==
  /\ PriorityReturned
  /\ SkillsInSpan(call.text, REQUIRED_KEYWORDS)
       \cap SkillsInSpan(call.text, PREFERRED_KEYWORDS) # {}
  /\ call.returned.preferred # <<>>

\* the skills of a parsed resume have been extracted
SkillsParsed == call # None /\ call.fn = "ResumeParser.parse_text"

\* C25: the skill list of a parsed resume is sorted and free of duplicates:
\* no two entries are equal ignoring letter case, and no two entries denote
\* the same canonical skill
C25_SkillsSortedAndDistinct ==
  SkillsParsed =>
    LET skills == call.returned
    IN  /\ \A a, b \in DOMAIN skills : a < b => str_less(skills[a], skills[b])
        /\ \A a, b \in DOMAIN skills :
             a # b => str_lower(skills[a]) # str_lower(skills[b])
        /\ \A a, b \in DOMAIN skills :
             a # b => normalize_skill(skills[a]) # normalize_skill(skills[b])

\* the same for the order and the entries as they are spelled
C25_SkillsSortedNoRepeat ==
  SkillsParsed =>
    LET skills == call.returned
    IN  \A a, b \in DOMAIN skills : a < b => str_less(skills[a], skills[b])

(***************************************************************************)
(* job_parser/extractors/requirement_extractor.py.  The tuple              *)
(* (min_years, max_years) is a record; max_years is NoneInt for None.      *)
(***************************************************************************)
\* years?
re_years_word == re_cat(<<re_lit(<<"y", "e", "a", "r">>), re_opt(re_lit(<<"s">>))>>)

\* \s*years?\s+(?:of\s+)?experience
re_years_of_experience ==
  re_cat(<<re_ss, re_years_word, re_sp,
           re_opt(re_cat(<<re_lit(<<"o", "f">>), re_sp>>)), re_lit(<<"e", "x", "p", "e", "r", "i", "e", "n", "c", "e">>)>>)

\* RequirementExtractor.EXPERIENCE_PATTERNS, compiled with re.IGNORECASE and
\* matched against the text in lower case: the part before the first group
\* (\d+), the part between the groups when there is a second group (\d+),
\* and the part after the last group
EXPERIENCE_PATTERNS == <<
  \* (\d+)\+?\s*years?\s+(?:of\s+)?experience
  [groups |-> 1, before |-> re_cat(<<>>), between |-> re_cat(<<>>),
   after |-> re_cat(<<re_opt(re_lit(<<"+">>)), re_years_of_experience>>)],
  \* experience[:\s]+(\d+)\+?\s*years?
  [groups |-> 1,
   before |-> re_cat(<<re_lit(<<"e", "x", "p", "e", "r", "i", "e", "n", "c", "e">>), re_plus({":"} \cup re_s)>>),
   between |-> re_cat(<<>>),
   after |-> re_cat(<<re_opt(re_lit(<<"+">>)), re_ss, re_years_word>>)],
  \* minimum\s+(?:of\s+)?(\d+)\s*years?
  [groups |-> 1,
   before |-> re_cat(<<re_lit(<<"m", "i", "n", "i", "m", "u", "m">>), re_sp,
                       re_opt(re_cat(<<re_lit(<<"o", "f">>), re_sp>>))>>),
   between |-> re_cat(<<>>),
   after |-> re_cat(<<re_ss, re_years_word>>)],
  \* at\s+least\s+(\d+)\s*years?
  [groups |-> 1,
   before |-> re_cat(<<re_lit(<<"a", "t">>), re_sp, re_lit(<<"l", "e", "a", "s", "t">>), re_sp>>),
   between |-> re_cat(<<>>),
   after |-> re_cat(<<re_ss, re_years_word>>)],
  \* (\d+)-(\d+)\s*years?\s+(?:of\s+)?experience
  [groups |-> 2, before |-> re_cat(<<>>), between |-> re_lit(<<"-">>),
   after |-> re_years_of_experience] >>

\* what follows the first group of a pattern
after_first_group(pattern) ==
  IF pattern.groups = 1 THEN pattern.after
  ELSE re_cat(<<pattern.between, re_plus(Digits), pattern.after>>)

\* match.groups() of pattern.search(text), <<>> without a match: the
\* leftmost match, each group taking as many digits as it can
pattern_search_groups(pattern, text) ==
  LET first == re_search_group(pattern.before, after_first_group(pattern), text)
      starts == {i \in 0..Len(text) :
                   re_group_at(pattern.before, after_first_group(pattern),
                               text, i) # {}}
      i == CHOOSE s \in starts : \A o \in starts : s <= o
      firsts == re_group_at(pattern.before, after_first_group(pattern), text, i)
      pq == CHOOSE g \in firsts : \A o \in firsts : g[2] >= o[2]
      seconds == UNION {re_group_at(re_cat(<<>>), pattern.after, text, p)
                          : p \in re_ends(pattern.between, text, pq[2])}
      rs == CHOOSE g \in seconds : \A o \in seconds : g[2] >= o[2]
  IN  IF first = NoneStr THEN <<>>
      ELSE IF pattern.groups = 1 THEN <<first>>
      ELSE <<first, SubSeq(text, rs[1] + 1, rs[2])>>

\* RequirementExtractor.extract_experience_years: the loop over the patterns
RECURSIVE experience_years_loop(_, _)
experience_years_loop(patterns, text_lower) ==
  IF patterns = <<>> THEN None
  ELSE LET groups == pattern_search_groups(Head(patterns), text_lower)
       IN  IF groups # <<>>
           THEN IF Len(groups) = 2 /\ groups[2] # <<>>
                THEN [min_years |-> int_of(groups[1]),
                      max_years |-> SomeInt(int_of(groups[2]))]
                ELSE [min_years |-> int_of(groups[1]), max_years |-> NoneInt]
           ELSE experience_years_loop(Tail(patterns), text_lower)

\* RequirementExtractor.extract_experience_years(text)
extract_experience_years(text) ==
  experience_years_loop(EXPERIENCE_PATTERNS, str_lower(text))

\* the largest figure of a job text
MaxYears == 11

\* job texts that state a requirement: what stands before it, the form of
\* the statement, and its figures
TextsBefore == {<<>>, <<"D", "e", "v", "e", "l", "o", "p", "e", "r", " ", "w", "i", "t", "h", " ">>}
RangeForms == {<<" ", "y", "e", "a", "r", "s", " ", "o", "f", " ", "e", "x", "p", "e", "r", "i", "e", "n", "c", "e">>, <<" ", "y", "e", "a", "r", "s", " ", "e", "x", "p", "e", "r", "i", "e", "n", "c", "e">>, <<" ", "Y", "e", "a", "r", "s", " ", "O", "f", " ", "E", "x", "p", "e", "r", "i", "e", "n", "c", "e">>}
SingleForms == {"plus", "minimum", "least"}
range_text(before, n, m, form) ==
  before \o str_of_int(n) \o <<"-">> \o str_of_int(m) \o form
single_text(before, n, form) ==
  CASE form = "plus" -> before \o str_of_int(n) \o <<"+", " ", "y", "e", "a", "r", "s", " ", "e", "x", "p", "e", "r", "i", "e", "n", "c", "e">>
    [] form = "minimum" -> before \o <<"m", "i", "n", "i", "m", "u", "m", " ", "o", "f", " ">> \o str_of_int(n) \o <<" ", "y", "e", "a", "r", "s">>
    [] form = "least" -> before \o <<"a", "t", " ", "l", "e", "a", "s", "t", " ">> \o str_of_int(n) \o <<" ", "y", "e", "a", "r", "s">>

RequirementInit ==
  /\ LaterIdle
  /\ NormIdle /\ SkillIdle /\ MatchIdle /\ ctor = None

\* RequirementExtractor().extract_experience_years(text)
ExtractExperienceYears(stated, text) ==
  /\ call = None
  /\ call' = [fn |-> "RequirementExtractor.extract_experience_years",
              text |-> text, stated |-> stated,
              returned |-> extract_experience_years(text)]
  /\ UNCHANGED call_only_frame

\* a call with a text that states the range n-m
ExtractRange ==
  \E before \in TextsBefore, n \in 0..MaxYears, m \in 0..MaxYears,
     form \in RangeForms :
       /\ n < m
       /\ ExtractExperienceYears([min_years |-> n, max_years |-> SomeInt(m)],
                                 range_text(before, n, m, form))

\* a call with a text that states the single figure n
ExtractSingle ==
  \E before \in TextsBefore, n \in 0..MaxYears, form \in SingleForms :
       ExtractExperienceYears([min_years |-> n, max_years |-> NoneInt],
                              single_text(before, n, form))

RequirementNext == ExtractRange \/ ExtractSingle

SpecRequirement == RequirementInit /\ [][RequirementNext]_vars

(***************************************************************************)
(* Claims about the requirement extractor.                                 *)
(***************************************************************************)
\* a call of extract_experience_years has returned
YearsReturned ==
  call # None /\ call.fn = "RequirementExtractor.extract_experience_years"

\* C23: for a job text that states a range "N-M years of experience" the
\* extracted requirement is (N, M), and for a text that states a single
\* figure ("N+ years experience", "minimum of N years", "at least N years")
\* it is (N, None)
C23_ExperienceRequirement ==
  YearsReturned => call.returned = call.stated

\* the same for the texts that state a single figure
C23_SingleFigure ==
  (YearsReturned /\ call.stated.max_years = NoneInt) =>
    call.returned = call.stated

(***************************************************************************)
(* resume_parser/utils/text_utils.py (parse_date_string, split_date_range) *)
(* and resume_parser/extractors/experience_extractor.py, as far as the     *)
(* dates of a work-experience entry.                                       *)
(***************************************************************************)
\* parse_date_string(date_str)
parse_date_string(date_str) ==
  IF date_str = NoneStr \/ date_str = <<>> THEN NoneStr
  ELSE IF str_lower(str_strip(date_str))
            \in {<<"p", "r", "e", "s", "e", "n", "t">>, <<"c", "u", "r", "r", "e", "n", "t">>, <<"n", "o", "w">>, <<"o", "n", "g", "o", "i", "n", "g">>}
  THEN <<"P", "r", "e", "s", "e", "n", "t">>
  ELSE str_strip(date_str)

\* split_date_range, line 255
separators ==
  <<<<" ", "-", " ">>, <<" ", en_dash, " ">>, <<" ", "t", "o", " ">>, <<" ", "t", "h", "r", "o", "u", "g", "h", " ">>, <<" ", "u", "n", "t", "i", "l", " ">>, <<"-">>, <<en_dash>>>>

\* the position before the first occurrence of sep in s, -1 if there is none
str_find(s, sep) ==
  IF str_contains(s, sep)
  THEN CHOOSE i \in 0..(Len(s) - Len(sep)) :
         /\ SubSeq(s, i + 1, i + Len(sep)) = sep
         /\ \A j \in 0..(i - 1) : SubSeq(s, j + 1, j + Len(sep)) # sep
  ELSE -1

\* split_date_range, lines 257-266: the loop over the separators
RECURSIVE split_at_first(_, _)
split_at_first(date_range, seps) ==
  IF seps = <<>>
  THEN [start |-> NoneStr, end |-> parse_date_string(date_range)]
  ELSE LET sep == Head(seps)
           at == str_find(date_range, sep)
       IN  IF at >= 0
           THEN [start |-> parse_date_string(SubSeq(date_range, 1, at)),
                 end |-> parse_date_string(
                           SubSeq(date_range, at + Len(sep) + 1,
                                  Len(date_range)))]
           ELSE split_at_first(date_range, Tail(seps))

\* split_date_range(date_range): the tuple (start_date, end_date)
split_date_range(date_range) ==
  IF date_range = <<>> THEN [start |-> NoneStr, end |-> NoneStr]
  ELSE split_at_first(date_range, separators)

\* the pieces of DATE_PATTERNS, compiled with re.IGNORECASE and matched
\* against the text in lower case
re_month ==
  re_alt(<<re_cat(<<re_lit(<<"j", "a", "n">>), re_opt(re_lit(<<"u", "a", "r", "y">>))>>),
           re_cat(<<re_lit(<<"f", "e", "b">>), re_opt(re_lit(<<"r", "u", "a", "r", "y">>))>>),
           re_cat(<<re_lit(<<"m", "a", "r">>), re_opt(re_lit(<<"c", "h">>))>>),
           re_cat(<<re_lit(<<"a", "p", "r">>), re_opt(re_lit(<<"i", "l">>))>>),
           re_lit(<<"m", "a", "y">>),
           re_cat(<<re_lit(<<"j", "u", "n">>), re_opt(re_lit(<<"e">>))>>),
           re_cat(<<re_lit(<<"j", "u", "l">>), re_opt(re_lit(<<"y">>))>>),
           re_cat(<<re_lit(<<"a", "u", "g">>), re_opt(re_lit(<<"u", "s", "t">>))>>),
           re_cat(<<re_lit(<<"s", "e", "p">>), re_opt(re_lit(<<"t", "e", "m", "b", "e", "r">>))>>),
           re_cat(<<re_lit(<<"o", "c", "t">>), re_opt(re_lit(<<"o", "b", "e", "r">>))>>),
           re_cat(<<re_lit(<<"n", "o", "v">>), re_opt(re_lit(<<"e", "m", "b", "e", "r">>))>>),
           re_cat(<<re_lit(<<"d", "e", "c">>), re_opt(re_lit(<<"e", "m", "b", "e", "r">>))>>)>>)
re_d4 == re_dir_Y
re_month_year == re_cat(<<re_month, re_sp, re_d4>>)
re_m_slash_year ==
  re_cat(<<re_set(Digits), re_opt(re_set(Digits)), re_lit(<<"/">>), re_d4>>)
\* \s*[-–—]\s*
re_dash == re_cat(<<re_ss, re_set({"-", en_dash, em_dash}), re_ss>>)
re_present == re_alt(<<re_lit(<<"p", "r", "e", "s", "e", "n", "t">>), re_lit(<<"c", "u", "r", "r", "e", "n", "t">>), re_lit(<<"n", "o", "w">>)>>)

DATE_PATTERNS ==
  <<re_cat(<<re_month_year, re_dash, re_alt(<<re_month_year, re_present>>)>>),
    re_cat(<<re_m_slash_year, re_dash, re_alt(<<re_m_slash_year, re_present>>)>>),
    re_cat(<<re_d4, re_dash, re_alt(<<re_d4, re_present>>)>>),
    re_cat(<<re_b, re_d4, re_b>>)>>

\* match.group() of pattern.search(text), NoneStr without a match: the
\* leftmost match (a date pattern that matches at a position has one end)
re_search_match(pattern, text) ==
  LET lower == str_lower(text)
      starts == {i \in 0..Len(text) : re_ends(pattern, lower, i) # {}}
      i == CHOOSE s \in starts : \A o \in starts : s <= o
      ends == re_ends(pattern, lower, i)
      e == CHOOSE x \in ends : \A o \in ends : o <= x
  IN  IF starts = {} THEN NoneStr ELSE SubSeq(text, i + 1, e)

\* ExperienceExtractor._extract_date_range(text), None without a date
RECURSIVE date_range_loop(_, _)
date_range_loop(patterns, text) ==
  IF patterns = <<>> THEN None
  ELSE LET date_str == re_search_match(Head(patterns), text)
       IN  IF date_str # NoneStr THEN split_date_range(date_str)
           ELSE date_range_loop(Tail(patterns), text)

_extract_date_range(text) == date_range_loop(DATE_PATTERNS, text)

\* line.strip() is not empty
not_blank(line) == str_strip(line) # <<>>

\* extract_lines(text)
extract_lines(text) ==
  IF text = <<>> THEN <<>>
  ELSE LET lines == str_split(text, "\n")
           kept == SelectSeq(lines, not_blank)
       IN  [n \in DOMAIN kept |-> str_strip(kept[n])]

\* ExperienceExtractor._parse_experience_block(block), lines 191-204: None,
\* or start_date, end_date and is_current of the WorkExperience; is_current
\* is whether "end_date and end_date.lower() in (...)" is true
_parse_experience_block(block) ==
  LET date_range == _extract_date_range(block)
      \* "if date_range:" holds for every tuple
      dated == date_range # None
  IN  IF extract_lines(block) = <<>> THEN None
      ELSE [start_date |-> IF dated THEN date_range.start ELSE NoneStr,
            end_date |-> IF dated THEN date_range.end ELSE NoneStr,
            is_current |->
              IF ~dated THEN FALSE
              ELSE /\ date_range.end # NoneStr
                   /\ date_range.end # <<>>
                   /\ str_lower(date_range.end)
                        \in {<<"p", "r", "e", "s", "e", "n", "t">>, <<"c", "u", "r", "r", "e", "n", "t">>, <<"n", "o", "w">>}]

\* the date ranges given: a start, a separator and an end
DateStarts == {<<"2", "0", "2", "0">>, <<"J", "a", "n", " ", "2", "0", "2", "0">>, <<"0", "1", "/", "2", "0", "2", "0">>}
DateSeparators ==
  {<<"-">>, <<" ", "-", " ">>, <<en_dash>>, <<" ", en_dash, " ">>, <<em_dash>>, <<" ", em_dash, " ">>, <<" ", "t", "o", " ">>, <<" ", "t", "h", "r", "o", "u", "g", "h", " ">>, <<" ", "u", "n", "t", "i", "l", " ">>}
DateEnds(start) ==
  {<<"P", "r", "e", "s", "e", "n", "t">>, <<"c", "u", "r", "r", "e", "n", "t">>, <<"N", "O", "W">>}
    \cup (CASE start = <<"2", "0", "2", "0">> -> {<<"2", "0", "2", "2">>}
            [] start = <<"J", "a", "n", " ", "2", "0", "2", "0">> -> {<<"D", "e", "c", "e", "m", "b", "e", "r", " ", "2", "0", "2", "2">>}
            [] start = <<"0", "1", "/", "2", "0", "2", "0">> -> {<<"1", "2", "/", "2", "0", "2", "2">>})
StatedRanges ==
  {r \in [start : DateStarts, sep : DateSeparators,
          end : UNION {DateEnds(start) : start \in DateStarts}] :
     r.end \in DateEnds(r.start)}
range_string(stated) == stated.start \o stated.sep \o stated.end

\* what stands before the dates in an experience block
BlockHeads == {<<>>, <<"E", "n", "g", "i", "n", "e", "e", "r", "\n", "A", "c", "m", "e", " ", "C", "o", "r", "p", "\n">>}

DatesInit ==
  /\ LaterIdle
  /\ NormIdle /\ SkillIdle /\ MatchIdle /\ ctor = None

\* split_date_range(date_range)
SplitDateRange(stated) ==
  /\ call = None
  /\ call' = [fn |-> "split_date_range", stated |-> stated,
              date_range |-> range_string(stated),
              returned |-> split_date_range(range_string(stated))]
  /\ UNCHANGED call_only_frame

\* ExperienceExtractor()._parse_experience_block(block)
ParseExperienceBlock(stated, head) ==
  /\ call = None
  /\ call' = [fn |-> "ExperienceExtractor._parse_experience_block",
              stated |-> stated, block |-> head \o range_string(stated),
              returned |-> _parse_experience_block(head \o range_string(stated))]
  /\ UNCHANGED call_only_frame

DatesNext ==
  \/ \E stated \in StatedRanges : SplitDateRange(stated)
  \/ \E stated \in StatedRanges, head \in BlockHeads :
        ParseExperienceBlock(stated, head)

SpecDates == DatesInit /\ [][DatesNext]_vars

(***************************************************************************)
(* Claims about date ranges.                                               *)
(***************************************************************************)
\* the end token says that the position is the current one
EndIsCurrent(stated) ==
  str_lower(stated.end) \in {<<"p", "r", "e", "s", "e", "n", "t">>, <<"c", "u", "r", "r", "e", "n", "t">>, <<"n", "o", "w">>}

\* the end of a range that was split at its separator: the end token, or
\* "Present" for an end token that says so
SplitEnds(stated) ==
  {stated.end} \cup (IF EndIsCurrent(stated) THEN {<<"P", "r", "e", "s", "e", "n", "t">>} ELSE {})

\* the date pattern that comes first among those found in the block finds
\* the whole range
RangeRecognized(block, stated) ==
  \E n \in DOMAIN DATE_PATTERNS :
     /\ re_search_match(DATE_PATTERNS[n], block) = range_string(stated)
     /\ \A m \in 1..(n - 1) : re_search_match(DATE_PATTERNS[m], block) = NoneStr

\* the claim for the separators of a set
DateRangeSplit(seps) ==
  /\ (call # None /\ call.fn = "split_date_range"
        /\ str_strip(call.stated.sep) \in seps) =>
       /\ call.returned.start = call.stated.start
       /\ call.returned.end \in SplitEnds(call.stated)
  /\ (call # None /\ call.fn = "ExperienceExtractor._parse_experience_block"
        /\ str_strip(call.stated.sep) \in seps) =>
       IF RangeRecognized(call.block, call.stated)
       THEN /\ call.returned.start_date = call.stated.start
            /\ call.returned.end_date \in SplitEnds(call.stated)
            /\ call.returned.is_current = EndIsCurrent(call.stated)
       ELSE call.returned.is_current = FALSE

\* C24: a date range is split into a start and an end at its separator for
\* every separator among -, en dash, em dash, to, through and until, and the
\* work-experience entry of a block in which the range is recognized has
\* is_current true exactly when the end token is present, current or now in
\* any letter case, and false in every other case
C24_DateRangeSplitAtSeparator ==
  DateRangeSplit({<<"-">>, <<en_dash>>, <<em_dash>>, <<"t", "o">>, <<"t", "h", "r", "o", "u", "g", "h">>, <<"u", "n", "t", "i", "l">>})

\* the same for the separators other than the em dash
C24_SplitExceptEmDash ==
  DateRangeSplit({<<"-">>, <<en_dash>>, <<"t", "o">>, <<"t", "h", "r", "o", "u", "g", "h">>, <<"u", "n", "t", "i", "l">>})

(***************************************************************************)
(* embeddings/service.py: the cache of one service                         *)
(***************************************************************************)
\* EmbeddingService(cache_size=size): the attributes that encode uses
EmbeddingService_init(size) == [cache_size |-> size, _encoding_cache |-> <<>>]

\* the key that was put in the cache last
newest_key(cache) == cache[Len(cache)].text

\* oldest_key = next(iter(self._encoding_cache))
oldest_key(cache) == cache[1].text

\* EmbeddingService.encode(text, use_cache) on the service self, where the
\* model gives embedding for the stripped text: what the call returns or
\* raises, the service afterwards, and whether the model was called
EmbeddingService_encode_on(self, text, use_cache, embedding) ==
  IF text = <<>> \/ str_strip(text) = <<>>
  THEN [outcome |-> Returns(ZeroVector), self |-> self, model_called |-> FALSE]
  ELSE LET key == str_strip(text)
           cache == self._encoding_cache
       IN  IF use_cache /\ CacheHas(cache, key)
           THEN [outcome |-> Returns(CacheGet(cache, key)),
                 self |-> self,
                 model_called |-> FALSE]
           ELSE IF ~use_cache
           THEN [outcome |-> Returns(embedding), self |-> self,
                 model_called |-> TRUE]
           ELSE IF Len(cache) >= self.cache_size
           THEN IF cache = <<>>
                \* next(iter({})) raises StopIteration
                THEN [outcome |-> Raises("StopIteration"), self |-> self,
                      model_called |-> TRUE]
                ELSE [outcome |-> Returns(embedding),
                      self |-> [self EXCEPT !._encoding_cache =
                                  CachePut(CacheDel(cache, oldest_key(cache)), key,
                                           embedding)],
                      model_called |-> TRUE]
           ELSE [outcome |-> Returns(embedding),
                 self |-> [self EXCEPT !._encoding_cache =
                             CachePut(cache, key, embedding)],
                 model_called |-> TRUE]

\* the capacities of the services created and the number of texts stored
\* that is followed
MaxCacheSize == 2
MaxStored == 4
EncodeTexts == {<<"a">>, <<"b">>, <<"c">>, <<" ", "a", " ">>, <<>>}

CacheInit ==
  /\ LaterIdle
  /\ NormIdle /\ SkillIdle /\ MatchIdle
  /\ \E size \in 0..MaxCacheSize :
        ctor = [class |-> "EmbeddingService", args |-> <<size>>,
                object |-> EmbeddingService_init(size)]

\* service.encode(text, use_cache); calls keeps the texts stored so far
Encode(text, use_cache, embedding) ==
  LET encoded ==
        EmbeddingService_encode_on(ctor.object, text, use_cache, embedding)
      stored == /\ use_cache
                /\ encoded.model_called
                /\ ~encoded.outcome.threw
  IN  /\ Len(calls) < MaxStored
      /\ ctor' = [ctor EXCEPT !.object = encoded.self]
      /\ call' = [fn |-> "EmbeddingService.encode", text |-> text,
                  use_cache |-> use_cache,
                  before |-> ctor.object._encoding_cache,
                  outcome |-> encoded.outcome,
                  model_called |-> encoded.model_called]
      /\ calls' = IF stored
                  THEN Append(calls, [op |-> "store", text |-> str_strip(text)])
                  ELSE calls
      /\ UNCHANGED <<norm_vars, skill_vars, thread_vars>>
      /\ UNCHANGED <<matcher, pc, mode, resume, jobs, sort_by_score, sort_given,
                     resume_embedding, job_index, semantic_score,
                     experience_score, results, returned, _encoding_cache,
                     model_memo>>

CacheNext ==
  \E text \in EncodeTexts, use_cache \in BOOLEAN, embedding \in Embeddings :
     Encode(text, use_cache, embedding)

SpecCache == CacheInit /\ [][CacheNext]_vars

(***************************************************************************)
(* Claims about the cache of the embedding service.                        *)
(***************************************************************************)
\* the last n elements of a sequence
LastN(s, n) == SubSeq(s, Len(s) - n + 1, Len(s))

StoredTexts == [n \in DOMAIN calls |-> calls[n].text]

\* the last call looked in the cache and found its text there
CacheHit ==
  /\ call # None
  /\ call.use_cache
  /\ str_strip(call.text) # <<>>
  /\ CacheHas(call.before, str_strip(call.text))

TopMatchesReturned == pc = "done" /\ mode = "get_top_matches"

\* how many times x is in the list
CountIn(list, x) == Cardinality({n \in DOMAIN list : list[n] = x})

\* a result passes the filters of the call that returned
PassesFilters(result) ==
  /\ ~(returned.require_clearance /\ result.disqualified)
  /\ RatLeq(returned.min_score, result.score)

\* the claim for the calls whose top_k is one of top_ks
TopMatchesAre(top_ks) ==
  (TopMatchesReturned /\ returned.top_k \in top_ks) =>
    LET value == returned.value
    IN  /\ Len(value) <= (IF returned.top_k < 0 THEN 0 ELSE returned.top_k)
        /\ \A n \in 1..(Len(value) - 1) :
              RatLeq(value[n + 1].score, value[n].score)
        /\ \A n \in DOMAIN value : PassesFilters(value[n])
        /\ \A result \in Range(value) :
              CountIn(value, result) <= CountIn(results, result)
        /\ \A result \in Range(results) :
              (/\ PassesFilters(result)
               /\ CountIn(value, result) < CountIn(results, result)) =>
                 \A n \in DOMAIN value : RatLeq(result.score, value[n].score)

\* C28: get_top_matches returns at most top_k results (none for a top_k
\* below 0), results of the batch in non-increasing score order, each with
\* score at least min_score and, when clearance is required, none of them
\* disqualified; no result left out that passes those filters has a higher
\* score than a returned one
C28_TopMatches == TopMatchesAre(TopKs)

\* the same for the calls whose top_k is not below 0
C28_TopMatchesNotBelowZero == TopMatchesAre({top_k \in TopKs : top_k >= 0})

(***************************************************************************)
(* Claims about SemanticScorer.score_batch and SemanticScorer.score.       *)
(***************************************************************************)
\* what SemanticScorer.score returns for the resume text and the n-th job
\* text of the call of score_batch, on the same new service, with the same
\* resume embedding and the same model
ScoreOfJob(n) ==
  SemanticScorer_score(<<>>, <<>>, call.resume_text, call.job_texts[n],
                       call.resume_embedding, NoEmbedding,
                       ModelOutput(model_memo, call.resume_text),
                       ModelOutput(model_memo, call.job_texts[n])).score

\* the scores of the call are those of score, job by job
BatchScoresAsScore ==
  /\ Len(call.returned) = Len(call.job_texts)
  /\ \A n \in DOMAIN call.job_texts : call.returned[n] = ScoreOfJob(n)

\* C29: SemanticScorer.score_batch returns exactly one score per job text, in
\* input order, and the i-th score is what SemanticScorer.score returns for
\* the same resume text and the i-th job text, 0 for every job when the
\* resume text is empty and 0 for a job whose text is empty included
C29_ScoreBatchAsScore == ScoreBatchReturned => BatchScoresAsScore

\* the same for the calls whose resume text is not empty
C29_ScoreBatchOfResumeText ==
  (ScoreBatchReturned /\ call.resume_text # <<>>) => BatchScoresAsScore

\* a call with a resume text and two jobs, one of them without text
C29_TwoJobsOneEmpty ==
  /\ ScoreBatchReturned
  /\ call.resume_text # <<>>
  /\ Len(call.job_texts) = 2
  /\ call.job_texts[2] = <<>>
  /\ call.job_texts[1] # <<>>
  /\ call.returned[2] = RatZero
  /\ call.returned[1] # RatZero

(***************************************************************************)
(* api/routes/match.py, database/crud.py, models/db_models.py: requests to *)
(* calculate_match and calculate_all_matches_for_job.  Each request has a  *)
(* session of its own (get_db_session), which commits when the handler     *)
(* returns.  The handlers are coroutines without an await, so the requests *)
(* one server process serves do not interleave; the requests of different  *)
(* server processes on the one database interleave statement by statement. *)
(* The database has its default isolation level: a statement sees the rows *)
(* committed before it and the rows of its own session.                    *)
(***************************************************************************)
\* the rows of the tables resumes and jobs, the resumes as
\* ResumeDBService.get_all orders them
StoredResumes == <<"r2", "r1">>
StoredJobs == {"j1"}

\* the ids requests are made with; r0 and j0 are not stored
RequestResumeIds == {"r0", "r1", "r2"}
RequestJobIds == {"j0", "j1"}

\* the server processes, the requests followed, and the limits of
\* calculate_all_matches_for_job
MaxProcesses == 2
MaxRequests == 3
Limits == {1, 2}

\* None where the id of a row is expected
NoId == <<>>

\* MatchResultDB: the columns that identify a row and its pair (the scores
\* are those HybridMatcher.match gives for the stored resume and job)
MatchResultDB(id, resume_id, job_id) ==
  [id |-> id, resume_id |-> resume_id, job_id |-> job_id]

\* the rows of the table for a pair
RowsOf(rows, resume_id, job_id) ==
  {row \in rows : row.resume_id = resume_id /\ row.job_id = job_id}

\* MatchDBService.get_existing_match: the rows a statement of session k sees
\* for a pair; .first() gives one of them
visible(k, resume_id, job_id) ==
  RowsOf(match_results \cup Range(sessions[k].pending), resume_id, job_id)

\* the resume the handler of session k is at
resume_at(session) ==
  IF session.kind = "calculate_match" THEN session.resume_id
  ELSE session.resumes[session.i]

\* a process serves one request at a time
ProcessIdle(p) ==
  \A k \in DOMAIN sessions :
     sessions[k].process = p => sessions[k].pc = "done"

StoreInit ==
  /\ call = None
  /\ NormIdle /\ SkillIdle /\ MatchIdle /\ ctor = None
  /\ ThreadsIdle

store_frame ==
  <<call, call_frame, threads, services, _embedding_service,
    scorer_embedding_service, model_gives, reads, writes>>

\* a request arrives at process p
Begins(p, session) ==
  /\ Len(sessions) < MaxRequests
  /\ ProcessIdle(p)
  /\ sessions' = Append(sessions, session)
  /\ UNCHANGED <<match_results, store_frame>>

\* POST /: calculate_match, lines 129-139: the resume and the job are
\* fetched, HTTPException 404 if one is missing
CalculateMatch(p, resume_id, job_id) ==
  LET found == resume_id \in Range(StoredResumes) /\ job_id \in StoredJobs
  IN  Begins(p, [kind |-> "calculate_match", process |-> p,
                 resume_id |-> resume_id, job_id |-> job_id,
                 resumes |-> <<>>, i |-> 0,
                 stored_before |-> RowsOf(match_results, resume_id, job_id) # {},
                 pc |-> IF found THEN "existing" ELSE "done",
                 existing |-> NoId, pending |-> <<>>,
                 status |-> IF found THEN 0 ELSE 404,
                 match_id |-> NoId, matches_created |-> 0])

\* POST /calculate-all-for-job/{job_id}, lines 308-320: the job and the
\* resumes are fetched
CalculateAllMatchesForJob(p, job_id, limit) ==
  LET found == job_id \in StoredJobs
      resumes == IF found THEN first_n(StoredResumes, limit) ELSE <<>>
  IN  Begins(p, [kind |-> "calculate_all_matches_for_job", process |-> p,
                 resume_id |-> "", job_id |-> job_id,
                 resumes |-> resumes, i |-> 1,
                 stored_before |-> FALSE,
                 pc |-> IF found THEN "existing" ELSE "done",
                 existing |-> NoId, pending |-> <<>>,
                 status |-> IF found THEN 0 ELSE 404,
                 match_id |-> NoId, matches_created |-> 0])

\* the handler of session k goes on to the next resume of its loop, or
\* returns: the session commits
NextResume(session) ==
  IF session.kind = "calculate_all_matches_for_job"
       /\ session.i < Len(session.resumes)
  THEN [session EXCEPT !.i = @ + 1, !.pc = "existing"]
  ELSE [session EXCEPT !.pc = "commit"]

\* existing = MatchDBService.get_existing_match(session, resume_id, job_id):
\* calculate_match returns the row found, calculate_all_matches_for_job
\* skips the resume
GetExistingMatch(k) ==
  /\ sessions[k].pc = "existing"
  /\ LET session == sessions[k]
         rows == visible(k, resume_at(session), session.job_id)
     IN  IF rows = {}
         THEN sessions' = [sessions EXCEPT ![k].pc = "create"]
         ELSE \E row \in rows :
                sessions' =
                  [sessions EXCEPT
                     ![k] = NextResume(
                              IF session.kind = "calculate_match"
                              THEN [session EXCEPT !.existing = row.id,
                                                   !.match_id = row.id]
                              ELSE session)]
  /\ UNCHANGED <<match_results, store_frame>>

\* matcher.match(...) and MatchDBService.create(session, match_result): the
\* row is added and flushed
Create(k) ==
  /\ sessions[k].pc = "create"
  /\ LET session == sessions[k]
         id == <<k, Len(session.pending) + 1>>
         db_match == MatchResultDB(id, resume_at(session), session.job_id)
     IN  sessions' =
           [sessions EXCEPT
              ![k] = NextResume([session EXCEPT
                                   !.pending = Append(@, db_match),
                                   !.match_id = id,
                                   !.matches_created = @ + 1])]
  /\ UNCHANGED <<match_results, store_frame>>

\* the handler returns and get_db_session commits
Commit(k) ==
  /\ sessions[k].pc = "commit"
  /\ match_results' = match_results \cup Range(sessions[k].pending)
  /\ sessions' = [sessions EXCEPT ![k].pc = "done", ![k].status = 200]
  /\ UNCHANGED store_frame

StoreNext ==
  \/ \E p \in 1..MaxProcesses, resume_id \in RequestResumeIds,
        job_id \in RequestJobIds : CalculateMatch(p, resume_id, job_id)
  \/ \E p \in 1..MaxProcesses, job_id \in RequestJobIds, limit \in Limits :
        CalculateAllMatchesForJob(p, job_id, limit)
  \/ \E k \in DOMAIN sessions : GetExistingMatch(k)
  \/ \E k \in DOMAIN sessions : Create(k)
  \/ \E k \in DOMAIN sessions : Commit(k)

SpecStore == StoreInit /\ [][StoreNext]_vars

(***************************************************************************)
(* Claims about the stored matches.                                        *)
(***************************************************************************)
\* a request for a pair that has a stored match returns that match and
\* creates nothing
StoredMatchReturned ==
  \A k \in DOMAIN sessions :
     LET session == sessions[k]
     IN  (/\ session.kind = "calculate_match"
          /\ session.status = 200
          /\ session.stored_before) =>
            /\ session.pending = <<>>
            /\ session.existing # NoId
            /\ session.match_id = session.existing
            /\ \E row \in RowsOf(match_results, session.resume_id,
                                 session.job_id) : row.id = session.match_id

\* at most one row of match_results for each pair
OneRowPerPair ==
  \A resume_id \in RequestResumeIds, job_id \in RequestJobIds :
     Cardinality(RowsOf(match_results, resume_id, job_id)) <= 1

\* C30: for every (resume_id, job_id) pair at most one match record is ever
\* stored, and a match request for a pair that already has a stored match
\* returns that stored match and creates nothing, under every interleaving
\* of calculate_match and calculate_all_matches_for_job requests
C30_OneMatchPerPair == OneRowPerPair /\ StoredMatchReturned

\* the same when one server process has served all the requests
C30_OneProcess ==
  (\A k \in DOMAIN sessions : sessions[k].process = 1) =>
     (OneRowPerPair /\ StoredMatchReturned)

\* whatever the processes, a request for a pair that has a stored match
\* returns a stored match of the pair and creates nothing
C30_StoredMatchReturned == StoredMatchReturned

====
